---------------------------- MODULE Spec2Model ----------------------------
(***************************************************************************)
(* A model of the instruction-execution core of ps.rs: the R3000 step      *)
(* function (devices/cpu/cpu.rs), the system-control coprocessor           *)
(* (devices/cop0.rs), the instruction word and decoder                     *)
(* (utils/cpustructs.rs, utils/decode.rs), the address map                 *)
(* (utils/memorymap.rs) and the bus dispatcher (devices/motherboard.rs).   *)
(*                                                                         *)
(* A u32 is the pair <<hi, lo>> of its 16-bit halves, so that every value  *)
(* of the program keeps its 32-bit width: the model checker's own integers *)
(* stop at 2^31 - 1.                                                       *)
(***************************************************************************)
EXTENDS Integers, Sequences, FiniteSets, TLC

\* ------------------------------------------------------------------ u32

Half == 2^16

U32(hi, lo) == <<hi, lo>>

Hi(w) == w[1]

Lo(w) == w[2]

Zero32 == U32(0, 0)

\* u32::wrapping_add
wrapping_add(a, b) ==
    LET l == Lo(a) + Lo(b)
        h == Hi(a) + Hi(b) + (l \div Half)
    IN  U32(h % Half, l % Half)

\* a + b does not fit a u32 (the overflow a debug build aborts on)
add_overflows(a, b) == Hi(a) + Hi(b) + ((Lo(a) + Lo(b)) \div Half) >= Half

\* a < b on u32
lt_u32(a, b) == Hi(a) < Hi(b) \/ (Hi(a) = Hi(b) /\ Lo(a) < Lo(b))

\* u32::wrapping_sub
wrapping_sub(a, b) ==
    LET l == Lo(a) - Lo(b)
        borrow == IF l < 0 THEN 1 ELSE 0
        h == Hi(a) - Hi(b) - borrow
    IN  U32((h + Half) % Half, (l + Half) % Half)

\* the sign bit of the value read as an i32
is_negative(a) == Hi(a) >= 32768

\* a < b on i32
lt_i32(a, b) ==
    IF is_negative(a) = is_negative(b) THEN lt_u32(a, b) ELSE is_negative(a)

\* i32::checked_add: TRUE when the signed sum does not fit an i32
checked_add_overflows(a, b) ==
    /\ is_negative(a) = is_negative(b)
    /\ is_negative(wrapping_add(a, b)) # is_negative(a)

\* i32::checked_sub: TRUE when the signed difference does not fit an i32
checked_sub_overflows(a, b) ==
    /\ is_negative(a) # is_negative(b)
    /\ is_negative(wrapping_sub(a, b)) # is_negative(a)

\* bitwise operators on n-bit naturals, n a power of two, by halving
RECURSIVE BitAnd(_, _, _)
BitAnd(a, b, n) ==
    IF n = 1 THEN a * b
    ELSE LET p == 2^(n \div 2) IN
         BitAnd(a % p, b % p, n \div 2) + p * BitAnd(a \div p, b \div p, n \div 2)

RECURSIVE BitOr(_, _, _)
BitOr(a, b, n) ==
    IF n = 1 THEN a + b - a * b
    ELSE LET p == 2^(n \div 2) IN
         BitOr(a % p, b % p, n \div 2) + p * BitOr(a \div p, b \div p, n \div 2)

RECURSIVE BitXor(_, _, _)
BitXor(a, b, n) ==
    IF n = 1 THEN (a + b) % 2
    ELSE LET p == 2^(n \div 2) IN
         BitXor(a % p, b % p, n \div 2) + p * BitXor(a \div p, b \div p, n \div 2)

and32(a, b) == U32(BitAnd(Hi(a), Hi(b), 16), BitAnd(Lo(a), Lo(b), 16))

or32(a, b) == U32(BitOr(Hi(a), Hi(b), 16), BitOr(Lo(a), Lo(b), 16))

xor32(a, b) == U32(BitXor(Hi(a), Hi(b), 16), BitXor(Lo(a), Lo(b), 16))

not32(a) == U32(Half - 1 - Hi(a), Half - 1 - Lo(a))

\* a << 1 and a >> 1 on u32
shl1(a) == U32((2 * Hi(a) + (Lo(a) \div 32768)) % Half, (2 * Lo(a)) % Half)

shr1(a) == U32(Hi(a) \div 2, (Lo(a) \div 2) + 32768 * (Hi(a) % 2))

\* (a as i32) >> 1
sar1(a) == U32((Hi(a) \div 2) + (IF is_negative(a) THEN 32768 ELSE 0),
               (Lo(a) \div 2) + 32768 * (Hi(a) % 2))

\* a << n, a >> n and (a as i32) >> n on u32
shl(a, n) ==
    IF n < 16
    THEN U32((Hi(a) % 2^(16 - n)) * 2^n + Lo(a) \div 2^(16 - n), (Lo(a) % 2^(16 - n)) * 2^n)
    ELSE IF n < 32 THEN U32((Lo(a) % 2^(32 - n)) * 2^(n - 16), 0)
    ELSE Zero32

shr(a, n) ==
    IF n < 16
    THEN U32(Hi(a) \div 2^n, Lo(a) \div 2^n + (Hi(a) % 2^n) * 2^(16 - n))
    ELSE IF n < 32 THEN U32(0, Hi(a) \div 2^(n - 16))
    ELSE Zero32

sar(a, n) ==
    LET fill(k) == IF is_negative(a) THEN (2^k - 1) * 2^(16 - k) ELSE 0 IN
    IF n < 16
    THEN U32(Hi(a) \div 2^n + fill(n), Lo(a) \div 2^n + (Hi(a) % 2^n) * 2^(16 - n))
    ELSE IF n < 32 THEN U32(fill(16), Hi(a) \div 2^(n - 16) + fill(n - 16))
    ELSE U32(fill(16), fill(16))

\* u32::wrapping_shl, u32::wrapping_shr, i32::wrapping_shr: the count is taken mod 32
wrapping_shl(a, n) == shl(a, n % 32)

wrapping_shr(a, n) == shr(a, n % 32)

wrapping_sar(a, n) == sar(a, n % 32)

\* macro sign_extend!: (val as i16) as u32, the argument cut to 16 bits first
sign_extend(val) ==
    LET v == val % Half IN U32(IF v >= 32768 THEN Half - 1 ELSE 0, v)

\* macro zero_extend!: (val as u16) as u32
zero_extend(val) == U32(0, val % Half)

\* ---------------------------------------------------- instruction word

\* the INSTR_PART_* masks of the fields of an instruction word
INSTR_PART ==
    [OP |-> U32(\hFC00, \h0000),
     RS |-> U32(\h03E0, \h0000),
     RT |-> U32(\h001F, \h0000),
     RD |-> U32(\h0000, \hF800),
     SHAMT |-> U32(\h0000, \h07E0),
     FUNCT |-> U32(\h0000, \h001F),
     IMMEDIATE |-> U32(\h0000, \hFFFF),
     TARGET |-> U32(\h07FF, \hFFFF)]

\* Instruction::op .. Instruction::target; "as u8" and "as u16" keep the low bits
op(instr) == Lo(shr(and32(instr, INSTR_PART.OP), 26)) % 256

rs(instr) == Lo(shr(and32(instr, INSTR_PART.RS), 21)) % 256

rt(instr) == Lo(shr(and32(instr, INSTR_PART.RT), 16)) % 256

rd(instr) == Lo(shr(and32(instr, INSTR_PART.RD), 11)) % 256

shamt(instr) == Lo(shr(and32(instr, INSTR_PART.SHAMT), 5)) % 256

funct(instr) == Lo(and32(instr, INSTR_PART.FUNCT)) % 256

immediate(instr) == Lo(and32(instr, INSTR_PART.IMMEDIATE))

target(instr) == and32(instr, INSTR_PART.TARGET)

\* ---------------------------------------------------------------- decoder

\* the OP_* constants
OP == [SPECIAL |-> \b000000, REGIMM |-> \b000001, ADDI |-> \b001000,
       ADDIU |-> \b001001, ANDI |-> \b001100, BEQ |-> \b000100,
       BGTZ |-> \b000111, BLEZ |-> \b000110, BNE |-> \b000101,
       J |-> \b000010, JAL |-> \b000011, LB |-> \b100000, LBU |-> \b100100,
       LH |-> \b100001, LHU |-> \b100101, LUI |-> \b001111, LW |-> \b100011,
       LWL |-> \b100010, LWR |-> \b100110, ORI |-> \b001101, SB |-> \b101000,
       SH |-> \b101001, SLTI |-> \b001010, SLTIU |-> \b001011, SW |-> \b101011,
       SWL |-> \b101010, SWR |-> \b101110, XORI |-> \b001110,
       COPz |-> \b0100, LWCz |-> \b1100, SWCz |-> \b1110]

\* the FUNCT_* constants
FUNCT == [ADD |-> \b100000, ADDU |-> \b100001, AND |-> \b100100,
          BREAK |-> \b001101, DIV |-> \b011010, DIVU |-> \b011011,
          JALR |-> \b001001, JR |-> \b001000, MFHI |-> \b010000,
          MFLO |-> \b010010, MTHI |-> \b010001, MTLO |-> \b010011,
          MULT |-> \b011000, MULTU |-> \b011001, NOR |-> \b100111,
          OR |-> \b100101, SLL |-> \b000000, SLLV |-> \b000100,
          SLT |-> \b101010, SLTU |-> \b101011, SRA |-> \b000011,
          SRAV |-> \b000111, SRL |-> \b000010, SRLV |-> \b000110,
          SUB |-> \b100010, SUBU |-> \b100011, SYSCALL |-> \b001100,
          XOR |-> \b100110]

\* the RZ_* constants
RZ == [BGEZ |-> \b00001, BGEZAL |-> \b10001, BLTZ |-> \b00000, BLTZAL |-> \b10000]

\* a panic!, todo! or failed expect: the process aborts
PANIC == "panic"

ILLEGAL == "__ILLEGAL__"

\* the mnemonic whose constant in table equals v, PANIC when there is none
Lookup(table, names, v) ==
    IF \E n \in names : table[n] = v
    THEN CHOOSE n \in names : table[n] = v
    ELSE PANIC

decode_register_instruction(instr) ==
    Lookup(FUNCT, DOMAIN FUNCT, funct(instr))

decode_regimm_instruction(instr) ==
    Lookup(RZ, DOMAIN RZ, rt(instr))

decode_copz_instruction(instr) ==
    CASE rs(instr) = \b10000 -> "COPz"
      [] rs(instr) = \b00010 -> "CFCz"
      [] rs(instr) = \b00000 -> "MFCz"
      [] rs(instr) = \b00100 -> "MTCz"
      [] OTHER -> PANIC

\* the opcodes of the direct lookup
DirectOps == DOMAIN OP \ {"SPECIAL", "REGIMM", "COPz", "LWCz", "SWCz"}

decode_instruction(word) ==
    LET o == op(word) IN
    IF o = OP.SPECIAL THEN decode_register_instruction(word)
    ELSE IF o = OP.REGIMM THEN decode_regimm_instruction(word)
    ELSE IF o \div 4 = OP.COPz THEN decode_copz_instruction(word)
    ELSE IF o \div 4 = OP.LWCz THEN "LWCz"
    ELSE IF o \div 4 = OP.SWCz THEN "SWCz"
    ELSE IF \E n \in DirectOps : OP[n] = o THEN CHOOSE n \in DirectOps : OP[n] = o
    ELSE ILLEGAL

\* ------------------------------------------------------------- address map

\* Range::new: end = start.wrapping_add(length)
Range(start, length) ==
    [start |-> start, length |-> length, end |-> wrapping_add(start, length)]

\* Range::contains
\* contains with the end of the range counted in
contains_inclusive(range, addr) == ~lt_u32(addr, range.start) /\ ~lt_u32(range.end, addr)

contains(range, addr) == ~lt_u32(addr, range.start) /\ lt_u32(addr, range.end)

\* Range::as_local_addr
as_local_addr(range, addr) == wrapping_sub(addr, range.start)

KUSEG_RANGE == Range(U32(\h0000, \h0000), U32(\h8000, \h0000))

KSEG0_RANGE == Range(U32(\h8000, \h0000), U32(\h2000, \h0000))

KSEG1_RANGE == Range(U32(\hA000, \h0000), U32(\h2000, \h0000))

KSEG2_RANGE == Range(U32(\hC000, \h0000), U32(\h4000, \h0000))

RAM_RANGE == Range(U32(\h0000, \h0000), U32(\h0020, \h0000))

EXP1_RANGE == Range(U32(\h0F00, \h0000), U32(\h0080, \h0000))

SCRATCH_RANGE == Range(U32(\h0F80, \h0000), U32(0, 1024))

MEM_CTRL_RANGE == Range(U32(\h0F80, \h1000), U32(0, \h24))

PERIPHERAL_IO_RANGE == Range(U32(\h0F80, \h1040), U32(0, \h20))

RAM_CTRL_RANGE == Range(U32(\h0F80, \h1060), U32(0, 4))

INT_CTRL_RANGE == Range(U32(\h0F80, \h1070), U32(0, 8))

DMA_RANGE == Range(U32(\h0F80, \h1080), U32(0, 128))

TIMER_RANGE == Range(U32(\h0F80, \h1100), U32(0, \h30))

SPU_RANGE == Range(U32(\h0F80, \h1c00), U32(0, 640))

EXP2_RANGE == Range(U32(\h0F80, \h2000), U32(0, 8 * 1024))

EXP3_RANGE == Range(U32(\h0FA0, \h0000), U32(\h0020, \h0000))

BIOS_RANGE == Range(U32(\h0FC0, \h0000), U32(\h0008, \h0000))

CACHE_CTRL_RANGE == Range(U32(\h3FFE, \h0000), U32(0, 512))

RANGES ==
    << <<"RAM", RAM_RANGE>>, <<"Expansion1", EXP1_RANGE>>,
       <<"Scratch", SCRATCH_RANGE>>, <<"MemCtrl", MEM_CTRL_RANGE>>,
       <<"IOPeripheral", PERIPHERAL_IO_RANGE>>, <<"RamCtrl", RAM_CTRL_RANGE>>,
       <<"IntCtrl", INT_CTRL_RANGE>>, <<"DMA", DMA_RANGE>>,
       <<"Timers", TIMER_RANGE>>, <<"SPU", SPU_RANGE>>,
       <<"Expansion2", EXP2_RANGE>>, <<"Expansion3", EXP3_RANGE>>,
       <<"BIOS", BIOS_RANGE>>, <<"IOCacheControl", CACHE_CTRL_RANGE>> >>

\* the mask that folds KUSEG, KSEG0 and KSEG1 together
SEG_LOCAL_MASK == U32(\h0FFF, \hFFFF)

\* the bound of the KUSEG guard with a digit dropped
KUSEG_GUARD_short == U32(\h0200, \h0000)

\* the bound of the KUSEG guard
KUSEG_GUARD == U32(\h2000, \h0000)

\* a mapping (segment, device, local address); device PANIC when map_device aborts
Mapping(seg, dev, local) == [seg |-> seg, dev |-> dev, local |-> local]

\* map_device, the segment of an address
segment_of(addr) ==
    IF lt_u32(addr, KUSEG_RANGE.end) THEN "KUSEG"
    ELSE IF lt_u32(addr, KSEG0_RANGE.end) THEN "KSEG0"
    ELSE IF lt_u32(addr, KSEG1_RANGE.end) THEN "KSEG1"
    ELSE "KSEG2"

\* map_kseg2 with the end of the cache-control range taken as part of it
map_kseg2_inclusive(a) ==
    IF lt_u32(a, CACHE_CTRL_RANGE.start) \/ lt_u32(CACHE_CTRL_RANGE.end, a)
    THEN Mapping("KSEG2", PANIC, a)
    ELSE Mapping("KSEG2", "IOCacheControl", wrapping_sub(a, CACHE_CTRL_RANGE.start))

\* map_device in KSEG2: a is the address relative to the segment
map_kseg2(a) ==
    IF lt_u32(a, CACHE_CTRL_RANGE.start) \/ ~lt_u32(a, CACHE_CTRL_RANGE.end)
    THEN Mapping("KSEG2", PANIC, a)
    ELSE Mapping("KSEG2", "IOCacheControl", wrapping_sub(a, CACHE_CTRL_RANGE.start))

\* RANGES.iter().find(..): the index of the first range that contains the
\* address, 0 when there is none
find_range(ranges, seg_local_addr) ==
    LET found == {i \in DOMAIN ranges : contains(ranges[i][2], seg_local_addr)} IN
    IF found = {} THEN 0 ELSE CHOOSE i \in found : \A j \in found : i <= j

\* map_found without the test that keeps the scratchpad out of KSEG1
map_found_any_segment(segment, seg_local_addr, ranges, first) ==
    IF first = 0 THEN Mapping(segment, PANIC, seg_local_addr)
    ELSE Mapping(segment, ranges[first][1], as_local_addr(ranges[first][2], seg_local_addr))

\* map_device, the outcome of the search
map_found(segment, seg_local_addr, ranges, first) ==
    IF first = 0 THEN Mapping(segment, PANIC, seg_local_addr)
    ELSE IF segment = "KSEG1" /\ ranges[first][1] = "Scratch"
    THEN Mapping(segment, PANIC, seg_local_addr)
    ELSE Mapping(segment, ranges[first][1], as_local_addr(ranges[first][2], seg_local_addr))

\* map_device in KUSEG, KSEG0 and KSEG1, which mirror each other
map_mirrored(segment, seg_local_addr, ranges) ==
    IF lt_u32(KUSEG_GUARD, seg_local_addr) /\ segment = "KUSEG"
    THEN Mapping(segment, "VMemException", seg_local_addr)
    ELSE map_found(segment, seg_local_addr, ranges, find_range(ranges, seg_local_addr))

\* map_device for an address of the given segment
map_segment(segment, addr) ==
    IF segment = "KSEG2"
    THEN map_kseg2(wrapping_sub(addr, KSEG2_RANGE.start))
    ELSE map_mirrored(segment, and32(addr, SEG_LOCAL_MASK), RANGES)

\* map_device searching with the whole address instead of its low 28 bits
map_device_unfolded(addr) ==
    IF segment_of(addr) = "KSEG2"
    THEN map_kseg2(wrapping_sub(addr, KSEG2_RANGE.start))
    ELSE map_mirrored(segment_of(addr), addr, RANGES)

map_device(addr) == map_segment(segment_of(addr), addr)

\* ------------------------------------------------------- sized data, bus

\* the widths of u8, u16 and u32
Widths == {1, 2, 4}

\* is_aligned with the word test looking at bit 0 only
is_aligned_bit0(w, addr) ==
    CASE w = 1 -> TRUE
      [] w = 2 -> BitAnd(Lo(addr), \b1, 16) = 0
      [] w = 4 -> BitAnd(Lo(addr), \b1, 16) = 0

\* SizedData::is_aligned
is_aligned(w, addr) ==
    CASE w = 1 -> TRUE
      [] w = 2 -> BitAnd(Lo(addr), \b1, 16) = 0
      [] w = 4 -> BitAnd(Lo(addr), \b11, 16) = 0

\* SizedData::from_le_byteslice: the value of w little-endian bytes
from_le_byteslice(w, bytes) ==
    CASE w = 1 -> U32(0, bytes[1])
      [] w = 2 -> U32(0, bytes[1] + 256 * bytes[2])
      [] w = 4 -> U32(bytes[3] + 256 * bytes[4], bytes[1] + 256 * bytes[2])

\* SizedData::to_le_byteslice: the w little-endian bytes of a value
\* to_le_byteslice with the most significant byte first
to_be_byteslice(w, data) ==
    SubSeq(<<Hi(data) \div 256, Hi(data) % 256, Lo(data) \div 256, Lo(data) % 256>>, 5 - w, 4)

to_le_byteslice(w, data) ==
    SubSeq(<<Lo(data) % 256, Lo(data) \div 256, Hi(data) % 256, Hi(data) \div 256>>, 1, w)

\* SizedData::from_u32: the bits that do not fit are cut
from_u32(w, data) ==
    CASE w = 1 -> and32(data, U32(0, \hFF))
      [] w = 2 -> and32(data, U32(0, \hFFFF))
      [] w = 4 -> data

\* "addr as usize": device-local addresses are below 2^28
as_usize(a) == Hi(a) * Half + Lo(a)

\* A byte buffer (Vec<u8>) is kept as the function from the offsets of its
\* nonzero bytes to those bytes; every other byte of the buffer is zero.
ByteAt(buf, i) == IF i \in DOMAIN buf THEN buf[i] ELSE 0

\* the buffer with bytes copied in at offset addr
CopyIn(buf, addr, bytes) ==
    LET touched == {addr + i - 1 : i \in 1..Len(bytes)}
        byte(o) == IF o \in touched THEN bytes[o - addr + 1] ELSE buf[o]
    IN  [o \in {x \in DOMAIN buf \cup touched : byte(x) # 0} |-> byte(o)]

\* Ram::read_buf
read_buf(data, w, addr) ==
    from_le_byteslice(w, [i \in 1..w |-> ByteAt(data, addr + i - 1)])

\* Ram::write_buf
write_buf(data, w, addr, val) == CopyIn(data, addr, to_le_byteslice(w, val))

\* Rom::read: the little-endian bytes at addr
rom_read(buf, w, addr) ==
    from_le_byteslice(w, [i \in 1..w |-> ByteAt(buf, addr + i - 1)])

\* the result of a bus read: ok is FALSE when the read aborts the process
ReadResult(ok, data) == [ok |-> ok, data |-> data]

\* the MemoryController ports
EXP1_BASE_ADDR_PORT == U32(0, \h0)

EXP2_BASE_ADDR_PORT == U32(0, \h4)

I_STAT_PORT == U32(0, \h70)

I_MASK_PORT == U32(0, \h74)

\* EXP1_DELAY_PORT .. COM_DELAY_PORT
DELAY_PORTS == {U32(0, p) : p \in {\h8, \hC, \h10, \h14, \h18, \h1C, \h20}}

EXP1_BASE_ADDR == U32(\h1F00, \h0000)

EXP2_BASE_ADDR == U32(\h1F80, \h2000)

\* MemoryController::read
memctrl_read(w, addr) ==
    IF w # 4 THEN ReadResult(FALSE, Zero32)
    ELSE IF addr = EXP1_BASE_ADDR_PORT THEN ReadResult(TRUE, EXP1_BASE_ADDR)
    ELSE IF addr = EXP2_BASE_ADDR_PORT THEN ReadResult(TRUE, EXP2_BASE_ADDR)
    ELSE IF addr \in DELAY_PORTS THEN ReadResult(FALSE, Zero32)
    ELSE IF addr \in {I_MASK_PORT, I_STAT_PORT} THEN ReadResult(TRUE, Zero32)
    ELSE ReadResult(FALSE, Zero32)

\* MemoryController::write: TRUE when the write returns, FALSE when it aborts
memctrl_write(w, addr, data) ==
    IF addr = EXP1_BASE_ADDR_PORT THEN data = from_u32(w, EXP1_BASE_ADDR)
    ELSE IF addr = EXP2_BASE_ADDR_PORT THEN data = from_u32(w, EXP2_BASE_ADDR)
    ELSE IF addr = I_MASK_PORT THEN data = from_u32(w, Zero32)
    ELSE TRUE

\* Motherboard::read, for the mapping m of the address
read_mapped(mb, w, addr, m) ==
    IF m.dev = PANIC THEN ReadResult(FALSE, Zero32)
    ELSE IF ~is_aligned(w, addr) THEN ReadResult(FALSE, Zero32)
    ELSE CASE m.dev = "RAM" -> ReadResult(TRUE, read_buf(mb.ram, w, as_usize(m.local)))
           [] m.dev = "MemCtrl" -> memctrl_read(w, m.local)
           [] m.dev = "BIOS" -> ReadResult(TRUE, rom_read(mb.bios, w, as_usize(m.local)))
           [] m.dev \in {"Expansion1", "SPU", "IntCtrl", "RamCtrl", "DMA"} ->
                ReadResult(TRUE, from_u32(w, Zero32))
           [] OTHER -> ReadResult(FALSE, Zero32)

\* Motherboard::read
mb_read(mb, w, addr) == read_mapped(mb, w, addr, map_device(addr))

\* the result of a bus write: the motherboard after it, ok FALSE when it aborts
WriteResult(ok, mb) == [ok |-> ok, mb |-> mb]

\* write_mapped with the BIOS among the devices that take a write
write_mapped_bios_writable(mb, w, addr, data, m) ==
    IF m.dev = PANIC THEN WriteResult(FALSE, mb)
    ELSE IF ~is_aligned(w, addr) THEN WriteResult(FALSE, mb)
    ELSE CASE m.dev = "RAM" ->
                WriteResult(TRUE, [mb EXCEPT !.ram = write_buf(@, w, as_usize(m.local), data)])
           [] m.dev = "BIOS" ->
                WriteResult(TRUE, [mb EXCEPT !.bios = write_buf(@, w, as_usize(m.local), data)])
           [] m.dev = "MemCtrl" -> WriteResult(memctrl_write(w, m.local, data), mb)
           [] m.dev \in {"SPU", "Expansion2", "IOCacheControl", "IntCtrl",
                         "RamCtrl", "Timers", "DMA"} -> WriteResult(TRUE, mb)
           [] OTHER -> WriteResult(FALSE, mb)

\* Motherboard::write, for the mapping m of the address
write_mapped(mb, w, addr, data, m) ==
    IF m.dev = PANIC THEN WriteResult(FALSE, mb)
    ELSE IF ~is_aligned(w, addr) THEN WriteResult(FALSE, mb)
    ELSE CASE m.dev = "RAM" ->
                WriteResult(TRUE, [mb EXCEPT !.ram = write_buf(@, w, as_usize(m.local), data)])
           [] m.dev = "MemCtrl" -> WriteResult(memctrl_write(w, m.local, data), mb)
           [] m.dev \in {"SPU", "Expansion2", "IOCacheControl", "IntCtrl",
                         "RamCtrl", "Timers", "DMA"} -> WriteResult(TRUE, mb)
           [] OTHER -> WriteResult(FALSE, mb)

\* the result of a bus peek: ok FALSE when it aborts, some FALSE for None
PeekResult(ok, some, data) == [ok |-> ok, some |-> some, data |-> data]

\* MemoryController::peek
memctrl_peek(w, addr) ==
    IF w # 4 THEN PeekResult(FALSE, FALSE, Zero32)
    ELSE IF addr = EXP1_BASE_ADDR_PORT THEN PeekResult(TRUE, TRUE, EXP1_BASE_ADDR)
    ELSE IF addr = EXP2_BASE_ADDR_PORT THEN PeekResult(TRUE, TRUE, EXP2_BASE_ADDR)
    ELSE PeekResult(FALSE, FALSE, Zero32)

\* Motherboard::peek, for the mapping m of the address
peek_mapped(mb, w, addr, m) ==
    IF m.dev = PANIC THEN PeekResult(FALSE, FALSE, Zero32)
    ELSE IF ~is_aligned(w, addr) THEN PeekResult(FALSE, FALSE, Zero32)
    ELSE CASE m.dev = "RAM" -> PeekResult(TRUE, TRUE, read_buf(mb.ram, w, as_usize(m.local)))
           [] m.dev = "MemCtrl" -> memctrl_peek(w, m.local)
           [] m.dev = "SPU" -> PeekResult(TRUE, TRUE, from_u32(w, Zero32))
           [] m.dev = "BIOS" -> PeekResult(TRUE, TRUE, rom_read(mb.bios, w, as_usize(m.local)))
           [] OTHER -> PeekResult(TRUE, FALSE, Zero32)

\* Motherboard::peek
mb_peek(mb, w, addr) == peek_mapped(mb, w, addr, map_device(addr))

\* Motherboard::write
mb_write(mb, w, addr, data) == write_mapped(mb, w, addr, data, map_device(addr))

\* ------------------------------------------------------------ cpu state

\* enum Exception, with the discriminant handle_exception shifts into Cause
Exception ==
    [Interrupt |-> 0, TLBModification |-> 1, TLBLoad |-> 2, TLBStore |-> 3,
     AddressLoad |-> 4, AddressStore |-> 5, ExtBusInstructionFetch |-> 6,
     ExtBusDataLoad |-> 7, Syscall |-> 8, Breakpoint |-> 9,
     ReservedInstruction |-> 10, CoprocessorUnusable |-> 11,
     IntegerOverflow |-> 12]

\* enum MagicAddress
MagicAddress ==
    [ResetVector |-> U32(\hBFC0, \h0000),
     TLBMiss |-> U32(\h8000, \h0000),
     TLBMissBev |-> U32(\hBFC0, \h0100),
     MiscException |-> U32(\h8000, \h0080),
     MiscExceptionBev |-> U32(\hBFC0, \h0180)]

\* CPU_POWERON_STATE
CPU_POWERON_STATE ==
    [registers |-> [i \in 0..31 |-> Zero32],
     hi |-> Zero32,
     lo |-> Zero32,
     pc |-> MagicAddress.ResetVector,
     next_instruction |-> <<Zero32, Zero32>>,
     next_load |-> <<0, Zero32>>,
     is_branch_delay |-> FALSE,
     wait |-> 0]

\* Cop0::new
Cop0_new == [sr |-> Zero32, cause |-> Zero32, epc |-> Zero32]

\* CpuR3000::new
CpuR3000_new == [state |-> CPU_POWERON_STATE, cycles |-> 0, cop0 |-> Cop0_new]

\* ----------------------------------------------------------------- cop0

CACHE_ISOLATE == U32(\h0001, \h0000)

BOOT_EXC_VECTORS == U32(\h0040, \h0000)

\* BPC_IDX, BDA_IDX, MYSTERY_IDX, DCIC_IDX, BDAM_IDX, BPCM_IDX
BREAKPOINT_IDXS == {3, 5, 6, 7, 9, 11}

SR_IDX == 12

CAUSE_IDX == 13

EPC_IDX == 14

\* Cop0::is_cache_isolated
is_cache_isolated(cop0) == lt_u32(Zero32, and32(cop0.sr, CACHE_ISOLATE))

\* Cop0::is_bev
is_bev(cop0) == lt_u32(Zero32, and32(cop0.sr, BOOT_EXC_VECTORS))

\* Cop0::mtc: the coprocessor after the move, ok FALSE when it aborts
\* mtc without the test of the written value
mtc_any_value(cop0, regidx, data) ==
    CASE regidx = SR_IDX -> [ok |-> TRUE, cop0 |-> [cop0 EXCEPT !.sr = data]]
      [] regidx \in BREAKPOINT_IDXS -> [ok |-> TRUE, cop0 |-> cop0]
      [] regidx = CAUSE_IDX ->
            [ok |-> TRUE, cop0 |-> [cop0 EXCEPT !.cause = data]]
      [] regidx = EPC_IDX -> [ok |-> TRUE, cop0 |-> [cop0 EXCEPT !.epc = data]]
      [] OTHER -> [ok |-> FALSE, cop0 |-> cop0]

mtc(cop0, regidx, data) ==
    CASE regidx = SR_IDX -> [ok |-> TRUE, cop0 |-> [cop0 EXCEPT !.sr = data]]
      [] regidx \in BREAKPOINT_IDXS -> [ok |-> data = Zero32, cop0 |-> cop0]
      [] regidx = CAUSE_IDX ->
            [ok |-> data = Zero32, cop0 |-> [cop0 EXCEPT !.cause = data]]
      [] regidx = EPC_IDX -> [ok |-> TRUE, cop0 |-> [cop0 EXCEPT !.epc = data]]
      [] OTHER -> [ok |-> FALSE, cop0 |-> cop0]

\* Cop0::mfc
mfc(cop0, regidx) ==
    CASE regidx = SR_IDX -> ReadResult(TRUE, cop0.sr)
      [] regidx = CAUSE_IDX -> ReadResult(TRUE, cop0.cause)
      [] regidx = EPC_IDX -> ReadResult(TRUE, cop0.epc)
      [] OTHER -> ReadResult(FALSE, Zero32)

\* the six bits of the mode stack in SR
MODE_MASK == U32(0, \h3F)

\* the branch-delay bit of Cause
CAUSE_BD == U32(\h8000, \h0000)

\* push_mode without the mask on the shifted mode bits
push_mode_unmasked(sr) ==
    or32(and32(sr, not32(MODE_MASK)), shl(and32(sr, MODE_MASK), 2))

\* handle_exception: SR with the mode stack pushed
push_mode(sr) ==
    or32(and32(sr, not32(MODE_MASK)), and32(shl(and32(sr, MODE_MASK), 2), MODE_MASK))

\* handle_exception: the cpu with the registers cop1 and the handler's address
vector_for(cpu, exc, cop1) ==
    [cpu |-> [cpu EXCEPT !.cop0 = cop1],
     addr |-> IF exc \in {"TLBModification", "TLBLoad", "TLBStore"}
              THEN (IF is_bev(cop1) THEN MagicAddress.TLBMissBev ELSE MagicAddress.TLBMiss)
              ELSE (IF is_bev(cop1) THEN MagicAddress.MiscExceptionBev
                    ELSE MagicAddress.MiscException)]

\* handle_exception with the exception code stored in Cause unshifted
handle_exception_unshifted(cpu, exc, pc, is_delay_slot) ==
    vector_for(cpu, exc,
               [sr |-> push_mode(cpu.cop0.sr),
                cause |-> IF is_delay_slot
                          THEN or32(U32(0, Exception[exc]), CAUSE_BD)
                          ELSE U32(0, Exception[exc]),
                epc |-> IF is_delay_slot THEN wrapping_sub(pc, U32(0, 4)) ELSE pc])

\* cop0::handle_exception: the cpu after it and the address of the handler
handle_exception(cpu, exc, pc, is_delay_slot) ==
    vector_for(cpu, exc,
               [sr |-> push_mode(cpu.cop0.sr),
                cause |-> IF is_delay_slot
                          THEN or32(shl(U32(0, Exception[exc]), 2), CAUSE_BD)
                          ELSE shl(U32(0, Exception[exc]), 2),
                epc |-> IF is_delay_slot THEN wrapping_sub(pc, U32(0, 4)) ELSE pc])

\* cop0::handle_cop_instr: the cpu after it, ok FALSE when it aborts
\* handle_cop_instr with RFE moving the mode bits by one place
handle_cop_instr_shift_one(cpu, instr) ==
    IF funct(instr) = \b010000
    THEN LET mode == and32(cpu.cop0.sr, MODE_MASK) IN
         [ok |-> TRUE,
          cpu |-> [cpu EXCEPT !.cop0.sr = or32(and32(@, not32(MODE_MASK)), shr(mode, 1))]]
    ELSE [ok |-> FALSE, cpu |-> cpu]

handle_cop_instr(cpu, instr) ==
    IF funct(instr) = \b010000
    THEN LET mode == and32(cpu.cop0.sr, MODE_MASK) IN
         [ok |-> TRUE,
          cpu |-> [cpu EXCEPT !.cop0.sr = or32(and32(@, not32(MODE_MASK)), shr(mode, 2))]]
    ELSE [ok |-> FALSE, cpu |-> cpu]

\* ------------------------------------------------------------ cpu helpers

\* A motherboard is [bios, ram, cpu, overflow_checks]: the stateless
\* MemoryController and Gpu carry nothing.  overflow_checks is the build
\* profile: with it a +, - or * that overflows aborts, without it it wraps.

\* the outcome of an operation handler (Option<Exception>, or the abort)
Done(mb) == [mb |-> mb, res |-> "None"]

Raise(mb, exc) == [mb |-> mb, res |-> exc]

Abort(mb) == [mb |-> mb, res |-> PANIC]

FOUR == U32(0, 4)

\* "a + b" and "a - b" on u32 abort on overflow in a build with overflow checks
add_aborts(mb, a, b) == mb.overflow_checks /\ add_overflows(a, b)

sub_aborts(mb, a, b) == mb.overflow_checks /\ lt_u32(a, b)

\* write_reg
write_reg(cpu, addr, data) ==
    [cpu EXCEPT !.state.registers = [[@ EXCEPT ![addr] = data] EXCEPT ![0] = Zero32]]

\* get_reg
get_reg(cpu, addr) == cpu.state.registers[addr]

\* the motherboard with a register written
WithReg(mb, addr, data) == [mb EXCEPT !.cpu = write_reg(@, addr, data)]

\* branch: the motherboard after it, ok FALSE when "new_pc - 4" aborts
branch(mb, offset) ==
    LET new_pc == wrapping_add(mb.cpu.state.pc, sign_extend(offset * 2^2)) IN
    [ok |-> ~sub_aborts(mb, new_pc, FOUR),
     mb |-> [mb EXCEPT !.cpu.state.pc = wrapping_sub(new_pc, FOUR)]]

\* a conditional branch handler's outcome
BranchIf(mb, cond, offset) ==
    IF cond
    THEN LET b == branch(mb, offset) IN IF b.ok THEN Done(b.mb) ELSE Abort(mb)
    ELSE Done(mb)

\* tick (cpu.rs): one wait cycle burnt and not ready, or ready
tick(mb) ==
    IF mb.cpu.state.wait > 0
    THEN [mb |-> [mb EXCEPT !.cpu.state.wait = @ - 1], ready |-> FALSE]
    ELSE [mb |-> mb, ready |-> TRUE]

\* read (cpu.rs)
read(mb, w, addr) == mb_read(mb, w, addr)

\* write (cpu.rs): dropped while the cache is isolated
write(mb, w, addr, data) ==
    IF is_cache_isolated(mb.cpu.cop0) THEN WriteResult(TRUE, mb)
    ELSE mb_write(mb, w, addr, data)

\* base register plus the sign-extended immediate
EffectiveAddr(mb, instr) ==
    wrapping_add(get_reg(mb.cpu, rs(instr)), sign_extend(immediate(instr)))

\* "as i8 as u32": a byte sign-extended to 32 bits
sign_extend_byte(b) == U32(IF b >= 128 THEN Half - 1 ELSE 0, IF b >= 128 THEN \hFF00 + b ELSE b)

\* ------------------------------------------------------------- handlers

\* op_add with a wrapping addition and no overflow test
op_add_wrapping(mb, instr) ==
    LET source_data == get_reg(mb.cpu, rs(instr))
        target_data == get_reg(mb.cpu, rt(instr))
    IN  Done(WithReg(mb, rd(instr), wrapping_add(source_data, target_data)))

op_add(mb, instr) ==
    LET source_data == get_reg(mb.cpu, rs(instr))
        target_data == get_reg(mb.cpu, rt(instr))
    IN  IF checked_add_overflows(source_data, target_data)
        THEN Raise(mb, "IntegerOverflow")
        ELSE Done(WithReg(mb, rd(instr), wrapping_add(source_data, target_data)))

op_addi(mb, instr) ==
    LET data == sign_extend(immediate(instr))
        source_data == get_reg(mb.cpu, rs(instr))
    IN  IF checked_add_overflows(source_data, data)
        THEN Raise(mb, "IntegerOverflow")
        ELSE Done(WithReg(mb, rt(instr), wrapping_add(source_data, data)))

op_addiu(mb, instr) ==
    Done(WithReg(mb, rt(instr),
                 wrapping_add(get_reg(mb.cpu, rs(instr)), sign_extend(immediate(instr)))))

op_addu(mb, instr) ==
    Done(WithReg(mb, rd(instr),
                 wrapping_add(get_reg(mb.cpu, rs(instr)), get_reg(mb.cpu, rt(instr)))))

op_and(mb, instr) ==
    Done(WithReg(mb, rd(instr), and32(get_reg(mb.cpu, rs(instr)), get_reg(mb.cpu, rt(instr)))))

op_andi(mb, instr) ==
    Done(WithReg(mb, rt(instr),
                 and32(get_reg(mb.cpu, rs(instr)), zero_extend(immediate(instr)))))

op_beq(mb, instr) ==
    BranchIf(mb, get_reg(mb.cpu, rs(instr)) = get_reg(mb.cpu, rt(instr)), immediate(instr))

op_bgez(mb, instr) ==
    BranchIf(mb, ~is_negative(get_reg(mb.cpu, rs(instr))), immediate(instr))

\* op_bgezal with the condition taken from rs as it was before the link
op_bgezal_compare_first(mb, instr) ==
    BranchIf(WithReg(mb, 31, mb.cpu.state.pc),
             ~is_negative(get_reg(mb.cpu, rs(instr))), immediate(instr))

op_bgezal(mb, instr) ==
    LET linked == WithReg(mb, 31, mb.cpu.state.pc) IN
    BranchIf(linked, ~is_negative(get_reg(linked.cpu, rs(instr))), immediate(instr))

op_bgtz(mb, instr) ==
    BranchIf(mb, lt_i32(Zero32, get_reg(mb.cpu, rs(instr))), immediate(instr))

op_blez(mb, instr) ==
    BranchIf(mb, ~lt_i32(Zero32, get_reg(mb.cpu, rs(instr))), immediate(instr))

op_bltz(mb, instr) ==
    BranchIf(mb, is_negative(get_reg(mb.cpu, rs(instr))), immediate(instr))

op_bltzal(mb, instr) ==
    LET linked == WithReg(mb, 31, mb.cpu.state.pc) IN
    BranchIf(linked, is_negative(get_reg(linked.cpu, rs(instr))), immediate(instr))

op_bne(mb, instr) ==
    BranchIf(mb, get_reg(mb.cpu, rs(instr)) # get_reg(mb.cpu, rt(instr)), immediate(instr))

op_break(mb, instr) == Raise(mb, "Breakpoint")

\* the coprocessor an instruction addresses
coproc(instr) == BitAnd(op(instr), \b11, 8)

op_cfcz(mb, instr) ==
    IF coproc(instr) = 2 THEN Abort(mb) ELSE Raise(mb, "CoprocessorUnusable")

op_copz(mb, instr) ==
    CASE coproc(instr) = 0 ->
            LET h == handle_cop_instr(mb.cpu, instr) IN
            IF h.ok THEN Done([mb EXCEPT !.cpu = h.cpu]) ELSE Abort(mb)
      [] coproc(instr) = 2 -> Abort(mb)
      [] OTHER -> Raise(mb, "CoprocessorUnusable")

op_ctcz(mb, instr) ==
    IF coproc(instr) = 2 THEN Abort(mb) ELSE Raise(mb, "CoprocessorUnusable")

\* the four most significant bits of the PC
PC_REGION_MASK == U32(\hF000, \h0000)

op_j(mb, instr) ==
    LET target_addr == shl(target(instr), 2)
        new_pc == or32(target_addr, and32(mb.cpu.state.pc, PC_REGION_MASK))
    IN  IF sub_aborts(mb, new_pc, FOUR) THEN Abort(mb)
        ELSE Done([mb EXCEPT !.cpu.state.pc = wrapping_sub(new_pc, FOUR),
                             !.cpu.state.is_branch_delay = TRUE])

op_jal(mb, instr) ==
    LET pc == mb.cpu.state.pc IN
    IF add_aborts(mb, pc, FOUR) THEN Abort(mb)
    ELSE op_j(WithReg(mb, 31, wrapping_add(pc, FOUR)), instr)

op_jalr(mb, instr) ==
    LET pc == mb.cpu.state.pc IN
    IF add_aborts(mb, pc, FOUR) THEN Abort(mb)
    ELSE LET linked == WithReg(mb, 31, wrapping_add(pc, FOUR))
             jmp_to == get_reg(linked.cpu, rs(instr))
         IN  IF sub_aborts(mb, jmp_to, FOUR) THEN Abort(linked)
             ELSE Done([linked EXCEPT !.cpu.state.pc = wrapping_sub(jmp_to, FOUR),
                                      !.cpu.state.is_branch_delay = TRUE])

op_jr(mb, instr) ==
    LET jmp_to == get_reg(mb.cpu, rs(instr)) IN
    IF sub_aborts(mb, jmp_to, FOUR) THEN Abort(mb)
    ELSE Done([mb EXCEPT !.cpu.state.pc = wrapping_sub(jmp_to, FOUR),
                         !.cpu.state.is_branch_delay = TRUE])

\* the u8 read converted "as i8" and then "as u32"
as_i8_as_u32(data) == sign_extend_byte(Lo(data))

\* a conversion that keeps the value: "as u8", "as i16" and "as u16" of a u8
\* read, each followed by "as u32"
as_is(data) == data

\* a load handler's outcome: the data read at width w, converted ("as i8" when
\* signed_byte, kept otherwise), is deposited as the pending load of register rt
Loaded(mb, instr, signed_byte, r) ==
    IF ~r.ok THEN Abort(mb)
    ELSE Done([mb EXCEPT !.cpu.state.next_load =
                   <<rt(instr), IF signed_byte THEN as_i8_as_u32(r.data) ELSE as_is(r.data)>>])

\* a load handler: the read at the effective address and its outcome
Load(mb, instr, w, signed_byte) ==
    Loaded(mb, instr, signed_byte, read(mb, w, EffectiveAddr(mb, instr)))

op_lb(mb, instr) == Load(mb, instr, 1, TRUE)

op_lbu(mb, instr) == Load(mb, instr, 1, FALSE)

op_lh(mb, instr) == Load(mb, instr, 1, FALSE)

op_lhu(mb, instr) == Load(mb, instr, 1, FALSE)

op_lui(mb, instr) == Done(WithReg(mb, rt(instr), shl(U32(0, immediate(instr)), 16)))

op_lw(mb, instr) == Load(mb, instr, 4, FALSE)

op_lwcz(mb, instr) ==
    IF coproc(instr) = 2 THEN Abort(mb) ELSE Raise(mb, "CoprocessorUnusable")

\* the aligned word address of an unaligned access: addr & !0x0000_0003
aligned(addr) == and32(addr, not32(U32(0, \h0003)))

\* the byte lane of an unaligned access: addr & 0x0000_0003
lane(addr) == Lo(and32(addr, U32(0, \h0003)))

\* merge_left with the byte lanes counted from the other end
merge_left_big_endian(n, current, other) ==
    CASE n = 3 -> or32(and32(current, U32(\h00FF, \hFFFF)), shl(other, 24))
      [] n = 2 -> or32(and32(current, U32(\h0000, \hFFFF)), shl(other, 16))
      [] n = 1 -> or32(and32(current, U32(\h0000, \h00FF)), shl(other, 8))
      [] n = 0 -> or32(and32(current, U32(\h0000, \h0000)), other)

\* the merge of LWL and SWL in byte lane n: keep the low bytes of current,
\* shift the other in
merge_left(n, current, other) ==
    CASE n = 0 -> or32(and32(current, U32(\h00FF, \hFFFF)), shl(other, 24))
      [] n = 1 -> or32(and32(current, U32(\h0000, \hFFFF)), shl(other, 16))
      [] n = 2 -> or32(and32(current, U32(\h0000, \h00FF)), shl(other, 8))
      [] n = 3 -> or32(and32(current, U32(\h0000, \h0000)), other)

\* the merge of LWR and SWR in byte lane n: keep the high bytes of current,
\* shift the other in
merge_right(n, current, other) ==
    CASE n = 0 -> or32(and32(current, U32(\h0000, \h0000)), other)
      [] n = 1 -> or32(and32(current, U32(\hFF00, \h0000)), shr(other, 8))
      [] n = 2 -> or32(and32(current, U32(\hFFFF, \h0000)), shr(other, 16))
      [] n = 3 -> or32(and32(current, U32(\hFFFF, \hFF00)), shr(other, 24))

\* an unaligned load's outcome once the aligned word has been read
LoadedUnaligned(mb, instr, r, merged) ==
    IF ~r.ok THEN Abort(mb) ELSE Done(WithReg(mb, rt(instr), merged))

\* op_lwl at the effective address addr, the aligned word read there being r
lwl_word(mb, instr, addr, r) ==
    LoadedUnaligned(mb, instr, r, merge_left(lane(addr), get_reg(mb.cpu, rt(instr)), r.data))

op_lwl(mb, instr) ==
    lwl_word(mb, instr, EffectiveAddr(mb, instr),
             mb_read(mb, 4, aligned(EffectiveAddr(mb, instr))))

\* op_lwr at the effective address addr, the aligned word read there being r
lwr_word(mb, instr, addr, r) ==
    LoadedUnaligned(mb, instr, r, merge_right(lane(addr), get_reg(mb.cpu, rt(instr)), r.data))

op_lwr(mb, instr) ==
    lwr_word(mb, instr, EffectiveAddr(mb, instr),
             mb_read(mb, 4, aligned(EffectiveAddr(mb, instr))))

op_mfcz(mb, instr) ==
    CASE coproc(instr) = 0 ->
            LET data == mfc(mb.cpu.cop0, rd(instr)) IN
            IF ~data.ok THEN Abort(mb)
            ELSE Done([mb EXCEPT !.cpu.state.next_load = <<rt(instr), data.data>>])
      [] coproc(instr) = 2 -> Abort(mb)
      [] OTHER -> Raise(mb, "CoprocessorUnusable")

op_mfhi(mb, instr) == Done(WithReg(mb, rd(instr), mb.cpu.state.hi))

op_mflo(mb, instr) == Done(WithReg(mb, rd(instr), mb.cpu.state.lo))

op_mthi(mb, instr) == Done([mb EXCEPT !.cpu.state.hi = get_reg(mb.cpu, rs(instr))])

op_mtlo(mb, instr) == Done([mb EXCEPT !.cpu.state.lo = get_reg(mb.cpu, rs(instr))])

op_mtcz(mb, instr) ==
    LET data == get_reg(mb.cpu, rt(instr)) IN
    CASE coproc(instr) = 0 ->
            LET m == mtc(mb.cpu.cop0, rd(instr), data) IN
            IF m.ok THEN Done([mb EXCEPT !.cpu.cop0 = m.cop0]) ELSE Abort(mb)
      [] coproc(instr) = 2 -> Abort(mb)
      [] OTHER -> Raise(mb, "CoprocessorUnusable")

op_nor(mb, instr) ==
    Done(WithReg(mb, rd(instr),
                 not32(or32(get_reg(mb.cpu, rs(instr)), get_reg(mb.cpu, rt(instr))))))

op_or(mb, instr) ==
    Done(WithReg(mb, rd(instr), or32(get_reg(mb.cpu, rs(instr)), get_reg(mb.cpu, rt(instr)))))

op_ori(mb, instr) ==
    Done(WithReg(mb, rt(instr),
                 or32(get_reg(mb.cpu, rs(instr)), zero_extend(immediate(instr)))))

\* a store handler's outcome, r being the result of the write of the low bits
\* of register rt at width w
Stored(mb, r) == IF r.ok THEN Done(r.mb) ELSE Abort(mb)

\* a store handler: the write at the effective address and its outcome
Store(mb, instr, w) ==
    Stored(mb, write(mb, w,
                     wrapping_add(mb.cpu.state.registers[rs(instr)],
                                  sign_extend(immediate(instr))),
                     from_u32(w, get_reg(mb.cpu, rt(instr)))))

op_sb(mb, instr) == Store(mb, instr, 1)

op_sh(mb, instr) == Store(mb, instr, 2)

\* op_sll shifting right instead of left
op_sll_right(mb, instr) ==
    Done(WithReg(mb, rd(instr), wrapping_shr(get_reg(mb.cpu, rt(instr)), shamt(instr))))

op_sll(mb, instr) ==
    Done(WithReg(mb, rd(instr), wrapping_shl(get_reg(mb.cpu, rt(instr)), shamt(instr))))

\* the low five bits of register rs, the count of a variable shift
shift_count(mb, instr) == BitAnd(Lo(get_reg(mb.cpu, rs(instr))), \b00011111, 16)

op_sllv(mb, instr) ==
    Done(WithReg(mb, rd(instr),
                 wrapping_shl(get_reg(mb.cpu, rt(instr)), shift_count(mb, instr))))

\* 1 or 0 as a u32
bool_u32(b) == IF b THEN U32(0, 1) ELSE U32(0, 0)

op_slt(mb, instr) ==
    Done(WithReg(mb, rd(instr),
                 bool_u32(lt_i32(get_reg(mb.cpu, rs(instr)), get_reg(mb.cpu, rt(instr))))))

op_slti(mb, instr) ==
    Done(WithReg(mb, rt(instr),
                 bool_u32(lt_i32(get_reg(mb.cpu, rs(instr)), sign_extend(immediate(instr))))))

op_sltiu(mb, instr) ==
    Done(WithReg(mb, rt(instr),
                 bool_u32(lt_u32(get_reg(mb.cpu, rs(instr)), sign_extend(immediate(instr))))))

op_sltu(mb, instr) ==
    Done(WithReg(mb, rd(instr),
                 bool_u32(lt_u32(get_reg(mb.cpu, rs(instr)), get_reg(mb.cpu, rt(instr))))))

op_sra(mb, instr) ==
    Done(WithReg(mb, rd(instr), wrapping_sar(get_reg(mb.cpu, rt(instr)), shamt(instr))))

op_srav(mb, instr) ==
    Done(WithReg(mb, rd(instr),
                 wrapping_sar(get_reg(mb.cpu, rt(instr)), shift_count(mb, instr))))

op_srl(mb, instr) ==
    Done(WithReg(mb, rd(instr), wrapping_shr(get_reg(mb.cpu, rt(instr)), shamt(instr))))

op_srlv(mb, instr) ==
    Done(WithReg(mb, rd(instr),
                 wrapping_shr(get_reg(mb.cpu, rt(instr)), shift_count(mb, instr))))

op_sub(mb, instr) ==
    LET source_data == get_reg(mb.cpu, rs(instr))
        target_data == get_reg(mb.cpu, rt(instr))
    IN  IF checked_sub_overflows(source_data, target_data)
        THEN Raise(mb, "IntegerOverflow")
        ELSE Done(WithReg(mb, rd(instr), wrapping_sub(source_data, target_data)))

op_subu(mb, instr) ==
    Done(WithReg(mb, rd(instr),
                 wrapping_sub(get_reg(mb.cpu, rs(instr)), get_reg(mb.cpu, rt(instr)))))

op_sw(mb, instr) == Store(mb, instr, 4)

op_swcz(mb, instr) ==
    IF coproc(instr) = 2 THEN Abort(mb) ELSE Raise(mb, "CoprocessorUnusable")

\* an unaligned store's outcome once the aligned word has been read: the
\* merged word is written back over it
StoredUnaligned(mb, addr, current, merged) ==
    IF ~current.ok THEN Abort(mb)
    ELSE Stored(mb, mb_write(mb, 4, aligned(addr), merged))

\* op_swl at the effective address addr, the aligned word read there being current
swl_word(mb, instr, addr, current) ==
    StoredUnaligned(mb, addr, current,
                    merge_left(lane(addr), current.data, get_reg(mb.cpu, rt(instr))))

op_swl(mb, instr) ==
    swl_word(mb, instr, EffectiveAddr(mb, instr),
             mb_read(mb, 4, aligned(EffectiveAddr(mb, instr))))

\* op_swr at the effective address addr, the aligned word read there being current
swr_word(mb, instr, addr, current) ==
    StoredUnaligned(mb, addr, current,
                    merge_right(lane(addr), current.data, get_reg(mb.cpu, rt(instr))))

op_swr(mb, instr) ==
    swr_word(mb, instr, EffectiveAddr(mb, instr),
             mb_read(mb, 4, aligned(EffectiveAddr(mb, instr))))

op_syscall(mb, instr) == Raise(mb, "Syscall")

op_xor(mb, instr) ==
    Done(WithReg(mb, rd(instr), xor32(get_reg(mb.cpu, rs(instr)), get_reg(mb.cpu, rt(instr)))))

op_xori(mb, instr) ==
    Done(WithReg(mb, rt(instr),
                 xor32(get_reg(mb.cpu, rs(instr)), zero_extend(immediate(instr)))))

op_illegal(mb, instr) == Raise(mb, "ReservedInstruction")

\* ---------------------------------------------------- multiply and divide

\* the value read as an i32, and the u32 of an i32
as_i32(a) == IF is_negative(a) THEN (Hi(a) - Half) * Half + Lo(a) ELSE Hi(a) * Half + Lo(a)

from_i32(n) == U32(((n \div Half) + Half) % Half, n % Half)

I32_MIN == U32(\h8000, \h0000)

\* trunc_div with the quotient rounded down and a remainder that is never
\* negative
floor_div(n, d) ==
    IF d = as_i32(I32_MIN)
    THEN IF n = d THEN [quot |-> 1, rem |-> 0] ELSE [quot |-> 0, rem |-> n]
    ELSE LET da == IF d < 0 THEN -d ELSE d
             qf == n \div da
             rf == n % da
         IN  [quot |-> IF d < 0 THEN -qf ELSE qf, rem |-> rf]

\* i32 "/" and "%": the quotient truncated toward zero and the remainder with
\* the sign of the numerator, for d # 0 and not (n = i32::MIN and d = -1)
trunc_div(n, d) ==
    IF d = as_i32(I32_MIN)
    THEN IF n = d THEN [quot |-> 1, rem |-> 0] ELSE [quot |-> 0, rem |-> n]
    ELSE LET da == IF d < 0 THEN -d ELSE d
             qf == n \div da
             rf == n % da
             q0 == IF n < 0 /\ rf # 0 THEN qf + 1 ELSE qf
             r0 == IF n < 0 /\ rf # 0 THEN rf - da ELSE rf
         IN  [quot |-> IF d < 0 THEN -q0 ELSE q0, rem |-> r0]

op_div(mb, instr) ==
    LET numerator == get_reg(mb.cpu, rs(instr))
        denominator == get_reg(mb.cpu, rt(instr))
    IN  IF denominator = Zero32
        THEN Done([mb EXCEPT !.cpu.state.hi = numerator,
                             !.cpu.state.lo = IF ~is_negative(numerator)
                                              THEN U32(\hFFFF, \hFFFF)
                                              ELSE U32(\h0000, \h0001)])
        ELSE IF numerator = I32_MIN /\ denominator = U32(\hFFFF, \hFFFF)
        THEN Done([mb EXCEPT !.cpu.state.hi = Zero32, !.cpu.state.lo = I32_MIN])
        ELSE LET qr == trunc_div(as_i32(numerator), as_i32(denominator)) IN
             Done([mb EXCEPT !.cpu.state.hi = from_i32(qr.rem),
                             !.cpu.state.lo = from_i32(qr.quot)])

\* a natural below 2^31 as a u32, and the u32 below 2^31 as a natural
from_nat(v) == U32(v \div Half, v % Half)

as_nat(a) == Hi(a) * Half + Lo(a)

I32_MAX == U32(\h7FFF, \hFFFF)

\* u32 "/" and "%" for d # 0: a numerator n >= 2^31 is split as i32::MAX + 1 + m
divu(n, d) ==
    IF is_negative(d)
    THEN IF lt_u32(n, d) THEN [quot |-> Zero32, rem |-> n]
         ELSE [quot |-> U32(0, 1), rem |-> wrapping_sub(n, d)]
    ELSE IF ~is_negative(n)
    THEN [quot |-> from_nat(as_nat(n) \div as_nat(d)), rem |-> from_nat(as_nat(n) % as_nat(d))]
    ELSE IF d = U32(0, 1) THEN [quot |-> n, rem |-> Zero32]
    ELSE LET dv == as_nat(d)
             m == as_nat(wrapping_sub(n, I32_MIN))
             r1 == as_nat(I32_MAX) % dv
             r2 == m % dv
             c1 == IF r1 >= dv - r2 THEN 1 ELSE 0
             s1 == IF c1 = 1 THEN r1 - (dv - r2) ELSE r1 + r2
             c2 == IF s1 = dv - 1 THEN 1 ELSE 0
             s2 == IF c2 = 1 THEN 0 ELSE s1 + 1
         IN  [quot |-> from_nat((as_nat(I32_MAX) \div dv) + (m \div dv) + c1 + c2),
              rem |-> from_nat(s2)]

op_divu(mb, instr) ==
    LET numerator == get_reg(mb.cpu, rs(instr))
        denominator == get_reg(mb.cpu, rt(instr))
    IN  IF denominator = Zero32
        THEN Done([mb EXCEPT !.cpu.state.hi = numerator,
                             !.cpu.state.lo = IF ~is_negative(numerator)
                                              THEN U32(\hFFFF, \hFFFF)
                                              ELSE U32(\h0000, \h0001)])
        ELSE LET qr == divu(numerator, denominator) IN
             Done([mb EXCEPT !.cpu.state.hi = qr.rem, !.cpu.state.lo = qr.quot])

\* the product of two little-endian byte strings, column by column
RECURSIVE ColSum(_, _, _, _)
ColSum(a, b, k, i) ==
    IF i > Len(a) THEN 0
    ELSE (IF k - i + 2 \in 1..Len(b) THEN a[i] * b[k - i + 2] ELSE 0) + ColSum(a, b, k, i + 1)

RECURSIVE MulCols(_, _, _, _)
MulCols(a, b, k, carry) ==
    IF k = Len(a) + Len(b) THEN <<>>
    ELSE LET t == ColSum(a, b, k, 1) + carry IN
         <<t % 256>> \o MulCols(a, b, k + 1, t \div 256)

\* "as u64" of a u32, and "as i32 as u64": eight little-endian bytes
as_u64(a) == to_le_byteslice(4, a) \o <<0, 0, 0, 0>>

as_i32_as_u64(a) ==
    to_le_byteslice(4, a) \o (IF is_negative(a) THEN <<255, 255, 255, 255>> ELSE <<0, 0, 0, 0>>)

\* the u64 product "a * b": aborts on overflow in a build with overflow checks
mul_u64(mb, a, b) ==
    LET p == MulCols(a, b, 0, 0) IN
    [ok |-> ~(mb.overflow_checks /\ \E i \in 9..16 : p[i] # 0),
     hi |-> from_le_byteslice(4, SubSeq(p, 5, 8)),
     lo |-> from_le_byteslice(4, SubSeq(p, 1, 4))]

op_mult(mb, instr) ==
    LET a == as_i32_as_u64(get_reg(mb.cpu, rs(instr)))
        b == as_i32_as_u64(get_reg(mb.cpu, rt(instr)))
        v == mul_u64(mb, a, b)
    IN  IF ~v.ok THEN Abort(mb)
        ELSE Done([mb EXCEPT !.cpu.state.hi = v.hi, !.cpu.state.lo = v.lo])

op_multu(mb, instr) ==
    LET a == as_u64(get_reg(mb.cpu, rs(instr)))
        b == as_u64(get_reg(mb.cpu, rt(instr)))
        v == mul_u64(mb, a, b)
    IN  IF ~v.ok THEN Abort(mb)
        ELSE Done([mb EXCEPT !.cpu.state.hi = v.hi, !.cpu.state.lo = v.lo])

\* ------------------------------------------------------------------ exec

match_handler(mnemonic, mb, instr) ==
    CASE mnemonic = "ADD" -> op_add(mb, instr)
      [] mnemonic = "ADDI" -> op_addi(mb, instr)
      [] mnemonic = "ADDIU" -> op_addiu(mb, instr)
      [] mnemonic = "ADDU" -> op_addu(mb, instr)
      [] mnemonic = "AND" -> op_and(mb, instr)
      [] mnemonic = "ANDI" -> op_andi(mb, instr)
      [] mnemonic = "BEQ" -> op_beq(mb, instr)
      [] mnemonic = "BGEZ" -> op_bgez(mb, instr)
      [] mnemonic = "BGEZAL" -> op_bgezal(mb, instr)
      [] mnemonic = "BGTZ" -> op_bgtz(mb, instr)
      [] mnemonic = "BLEZ" -> op_blez(mb, instr)
      [] mnemonic = "BLTZ" -> op_bltz(mb, instr)
      [] mnemonic = "BLTZAL" -> op_bltzal(mb, instr)
      [] mnemonic = "BNE" -> op_bne(mb, instr)
      [] mnemonic = "BREAK" -> op_break(mb, instr)
      [] mnemonic = "CFCz" -> op_cfcz(mb, instr)
      [] mnemonic = "COPz" -> op_copz(mb, instr)
      [] mnemonic = "CTCz" -> op_ctcz(mb, instr)
      [] mnemonic = "DIV" -> op_div(mb, instr)
      [] mnemonic = "DIVU" -> op_divu(mb, instr)
      [] mnemonic = "J" -> op_j(mb, instr)
      [] mnemonic = "JAL" -> op_jal(mb, instr)
      [] mnemonic = "JALR" -> op_jalr(mb, instr)
      [] mnemonic = "JR" -> op_jr(mb, instr)
      [] mnemonic = "LB" -> op_lb(mb, instr)
      [] mnemonic = "LBU" -> op_lbu(mb, instr)
      [] mnemonic = "LH" -> op_lh(mb, instr)
      [] mnemonic = "LHU" -> op_lhu(mb, instr)
      [] mnemonic = "LUI" -> op_lui(mb, instr)
      [] mnemonic = "LW" -> op_lw(mb, instr)
      [] mnemonic = "LWCz" -> op_lwcz(mb, instr)
      [] mnemonic = "LWL" -> op_lwl(mb, instr)
      [] mnemonic = "LWR" -> op_lwr(mb, instr)
      [] mnemonic = "MFCz" -> op_mfcz(mb, instr)
      [] mnemonic = "MFHI" -> op_mfhi(mb, instr)
      [] mnemonic = "MFLO" -> op_mflo(mb, instr)
      [] mnemonic = "MTCz" -> op_mtcz(mb, instr)
      [] mnemonic = "MTHI" -> op_mthi(mb, instr)
      [] mnemonic = "MTLO" -> op_mtlo(mb, instr)
      [] mnemonic = "MULT" -> op_mult(mb, instr)
      [] mnemonic = "MULTU" -> op_multu(mb, instr)
      [] mnemonic = "NOR" -> op_nor(mb, instr)
      [] mnemonic = "OR" -> op_or(mb, instr)
      [] mnemonic = "ORI" -> op_ori(mb, instr)
      [] mnemonic = "SB" -> op_sb(mb, instr)
      [] mnemonic = "SH" -> op_sh(mb, instr)
      [] mnemonic = "SLL" -> op_sll(mb, instr)
      [] mnemonic = "SLLV" -> op_sllv(mb, instr)
      [] mnemonic = "SLT" -> op_slt(mb, instr)
      [] mnemonic = "SLTI" -> op_slti(mb, instr)
      [] mnemonic = "SLTIU" -> op_sltiu(mb, instr)
      [] mnemonic = "SLTU" -> op_sltu(mb, instr)
      [] mnemonic = "SRA" -> op_sra(mb, instr)
      [] mnemonic = "SRAV" -> op_srav(mb, instr)
      [] mnemonic = "SRL" -> op_srl(mb, instr)
      [] mnemonic = "SRLV" -> op_srlv(mb, instr)
      [] mnemonic = "SUB" -> op_sub(mb, instr)
      [] mnemonic = "SUBU" -> op_subu(mb, instr)
      [] mnemonic = "SW" -> op_sw(mb, instr)
      [] mnemonic = "SWCz" -> op_swcz(mb, instr)
      [] mnemonic = "SWL" -> op_swl(mb, instr)
      [] mnemonic = "SWR" -> op_swr(mb, instr)
      [] mnemonic = "SYSCALL" -> op_syscall(mb, instr)
      [] mnemonic = "XOR" -> op_xor(mb, instr)
      [] mnemonic = "XORI" -> op_xori(mb, instr)
      [] mnemonic = ILLEGAL -> op_illegal(mb, instr)

\* what one exec observed: the instruction it executed and its address, the
\* delay-slot latch it sampled, the registers before the step, as its handler
\* found them and as its handler left them, the handler's result, the vector
\* Cop0 returned (zero when there was no exception) and the PC at the end of
\* the step
StepInfo(mb, mb1, mnemonic, h, pc_after, vector) ==
    [pc |-> mb.cpu.state.next_instruction[2],
     instr |-> mb.cpu.state.next_instruction[1],
     mnemonic |-> mnemonic,
     is_in_delay_slot |-> mb.cpu.state.is_branch_delay,
     fetch_pc |-> mb.cpu.state.pc,
     load |-> mb.cpu.state.next_load,
     before |-> mb.cpu.state.registers,
     seen |-> mb1.cpu.state.registers,
     after |-> h.mb.cpu.state.registers,
     hilo_seen |-> <<mb1.cpu.state.hi, mb1.cpu.state.lo>>,
     hilo_after |-> <<h.mb.cpu.state.hi, h.mb.cpu.state.lo>>,
     cop0_seen |-> mb1.cpu.cop0,
     res |-> h.res,
     vector |-> vector,
     pc_after |-> pc_after]

\* pre_execution with the fetched word paired with the address after it
pre_execution_off_by_one(mb, next_instruction, next_pc) ==
    LET reg_idx == mb.cpu.state.next_load[1]
        val == mb.cpu.state.next_load[2]
    IN  [mb EXCEPT !.cpu.state.next_instruction = <<next_instruction, wrapping_add(next_pc, FOUR)>>,
                   !.cpu.state.is_branch_delay = FALSE,
                   !.cpu.state.registers[reg_idx] = val,
                   !.cpu.state.next_load = <<0, Zero32>>]

\* exec, pre-execution updates: the fetched word becomes the pending
\* instruction, the latch is reset and the pending load is written back
pre_execution(mb, next_instruction, next_pc) ==
    LET reg_idx == mb.cpu.state.next_load[1]
        val == mb.cpu.state.next_load[2]
    IN  [mb EXCEPT !.cpu.state.next_instruction = <<next_instruction, next_pc>>,
                   !.cpu.state.is_branch_delay = FALSE,
                   !.cpu.state.registers[reg_idx] = val,
                   !.cpu.state.next_load = <<0, Zero32>>]

\* exec, the Some(exc) arm: the pending load is dropped
clear_pipeline(mb) == [mb EXCEPT !.cpu.state.next_load = <<0, Zero32>>]

\* exec, the Some(exc) arm once the word at the vector has been read: it
\* becomes the pending instruction and the PC is set past it
refetched(mb, exc_addr, exc_instr, advance) ==
    [ok |-> exc_instr.ok,
     addr |-> exc_addr,
     mb |-> [mb EXCEPT !.cpu.state.next_instruction = <<exc_instr.data, exc_addr>>,
                       !.cpu.state.pc = wrapping_add(exc_addr, advance)]]

\* exec, the Some(exc) arm once Cop0 has answered vec: the fetch at the vector
redirect(mb, vec, advance) ==
    refetched([mb EXCEPT !.cpu = vec.cpu], vec.addr,
              mb_read([mb EXCEPT !.cpu = vec.cpu], 4, vec.addr), advance)

\* take_exception with the PC left at the vector instead of the word after it
take_exception_no_advance(mb, exc, cur_pc, is_in_delay_slot) ==
    redirect(clear_pipeline(mb),
             handle_exception(clear_pipeline(mb).cpu, exc, cur_pc, is_in_delay_slot),
             Zero32)

\* exec, the Some(exc) arm: the pipeline is cleared and the CPU is redirected
\* to the vector; ok FALSE when the fetch at the vector aborts
take_exception(mb, exc, cur_pc, is_in_delay_slot) ==
    redirect(clear_pipeline(mb),
             handle_exception(clear_pipeline(mb).cpu, exc, cur_pc, is_in_delay_slot),
             FOUR)

\* a step that aborts the process, and the stage of exec in which it does
Aborted(mb, stage) == [ok |-> FALSE, mb |-> mb, stage |-> stage]

\* exec, the None arm: mb2 is the motherboard the handler left, cycles counted
advanced(mb, mb1, mnemonic, h, mb2, pc_after) ==
    IF add_aborts(mb2, mb2.cpu.state.pc, FOUR) THEN Aborted(mb, "advance")
    ELSE [ok |-> TRUE,
          mb |-> [mb2 EXCEPT !.cpu.state.pc = pc_after],
          info |-> StepInfo(mb, mb1, mnemonic, h, pc_after, Zero32)]

\* exec, the Some(exc) arm: exc is the outcome of take_exception
vectored(mb, mb1, mnemonic, h, exc) ==
    IF ~exc.ok THEN Aborted(mb, "vector")
    ELSE [ok |-> TRUE,
          mb |-> exc.mb,
          info |-> StepInfo(mb, mb1, mnemonic, h, exc.mb.cpu.state.pc, exc.addr)]

\* exec, post-execution updates: mb2 is the motherboard the handler left,
\* cycles counted
post_execution(mb, mb1, mnemonic, h, mb2) ==
    IF h.res = "None"
    THEN advanced(mb, mb1, mnemonic, h, mb2, wrapping_add(mb2.cpu.state.pc, FOUR))
    ELSE vectored(mb, mb1, mnemonic, h,
                  take_exception(mb2, h.res, mb.cpu.state.next_instruction[2],
                                 mb.cpu.state.is_branch_delay))

\* exec, the outcome h of the handler
handled(mb, mb1, mnemonic, h) ==
    IF h.res = PANIC THEN Aborted(mb, "handler")
    ELSE post_execution(mb, mb1, mnemonic, h, [h.mb EXCEPT !.cpu.cycles = @ + 1])

\* exec, the handler of the decoded instruction applied after the
\* pre-execution updates
dispatch(mb, mb1, mnemonic) ==
    IF mnemonic = PANIC THEN Aborted(mb, "decode")
    ELSE handled(mb, mb1, mnemonic,
                 match_handler(mnemonic, mb1, mb.cpu.state.next_instruction[1]))

\* exec, next_instruction being the outcome of the fetch at the PC
fetched(mb, next_instruction) ==
    IF ~next_instruction.ok THEN Aborted(mb, "fetch")
    ELSE dispatch(mb, pre_execution(mb, next_instruction.data, mb.cpu.state.pc),
                  decode_instruction(mb.cpu.state.next_instruction[1]))

\* exec with the fetch made one word after the PC
exec_fetch_ahead(mb) == fetched(mb, mb_read(mb, 4, wrapping_add(mb.cpu.state.pc, FOUR)))

\* exec: the motherboard after the step, ok FALSE when the step aborts the process
exec(mb) == fetched(mb, mb_read(mb, 4, mb.cpu.state.pc))

\* ------------------------------------------------------- the state machine

\* the machine, the build profile (overflow checks on or off), the stage at
\* which the process aborted ("none" while it runs) and what the most recent
\* steps observed
VARIABLES bios, ram, cpu, overflow_checks, fatal, hist

vars == <<bios, ram, cpu, overflow_checks, fatal, hist>>

\* the motherboard: the BIOS image, the RAM, the CPU and the build profile
Motherboard == [bios |-> bios, ram |-> ram, cpu |-> cpu, overflow_checks |-> overflow_checks]

\* number of steps the outer loop drives
MaxSteps == 8

\* number of most recent steps whose observations hist keeps
HistLen == 4

\* the sequence s with x appended, cut to its last HistLen entries
Remember(s, x) ==
    LET t == Append(s, x) IN
    IF Len(t) > HistLen THEN SubSeq(t, Len(t) - HistLen + 1, Len(t)) ELSE t

\* instruction words by format
IType(opc, s, t, imm) == U32(opc * 2^10 + s * 2^5 + t, imm)

RType(s, t, d, sa, fn) == U32(s * 2^5 + t, d * 2^11 + sa * 2^6 + fn)

JType(opc, addr) == U32(opc * 2^10 + (addr \div 4) \div Half, (addr \div 4) % Half)

CopType(sub, t, d) == U32(OP.COPz * 2^12 + sub * 2^5 + t, d * 2^11)

\* a BIOS image holding the words of prog from offset 0 and zero bytes after
ImageOf(prog) ==
    LET byte(o) == to_le_byteslice(4, prog[(o \div 4) + 1])[(o % 4) + 1] IN
    [o \in {x \in 0..(4 * Len(prog) - 1) : byte(x) # 0} |-> byte(o)]

\* the programs the BIOS image is drawn from, one instruction per slot: a
\* register set-up, an instruction working on it and a third instruction, or a
\* base, a set-up, a control transfer and the instruction in its delay slot
Slot1 ==
    {IType(OP.LUI, 0, 1, \hBFC0),
     IType(OP.LUI, 0, 1, \h0C00),
     IType(OP.LUI, 0, 1, \h0040),
     IType(OP.LUI, 0, 1, \h7FFF),
     IType(OP.ADDI, 0, 1, \h7FFF)}

Slot2 ==
    {IType(OP.LW, 1, 2, 0),
     IType(OP.LW, 1, 0, 0),
     IType(OP.ORI, 1, 1, 2),
     IType(OP.ORI, 1, 1, \hFFFF),
     IType(OP.SW, 0, 1, \h0080),
     CopType(\b00100, 1, SR_IDX),
     CopType(\b00000, 2, SR_IDX),
     RType(1, 1, 1, 0, FUNCT.ADD)}

Slot3 ==
    {IType(OP.ORI, 2, 3, 0),
     IType(OP.ADDI, 1, 1, 1),
     IType(OP.SW, 0, 0, \h0040),
     RType(0, 0, 0, 0, FUNCT.SYSCALL),
     RType(0, 0, 0, 0, FUNCT.BREAK)}

Bases ==
    {IType(OP.LUI, 0, 1, \hBFC0),
     IType(OP.LUI, 0, 1, \h0040)}

Setups ==
    {IType(OP.LW, 1, 2, 0),
     IType(OP.ORI, 1, 1, 2),
     CopType(\b00100, 1, SR_IDX)}

Transfers ==
    {RType(1, 0, 0, 0, FUNCT.JR),
     RType(1, 0, 31, 0, FUNCT.JALR),
     JType(OP.J, \h0FC00018),
     JType(OP.JAL, \h0FC00018),
     IType(OP.BEQ, 0, 0, 2),
     IType(OP.BNE, 0, 1, 2),
     IType(OP.BGTZ, 1, 0, 2),
     IType(OP.BLEZ, 1, 0, 2),
     IType(OP.REGIMM, 1, RZ.BGEZ, 2),
     IType(OP.REGIMM, 1, RZ.BLTZ, 2),
     IType(OP.REGIMM, 1, RZ.BGEZAL, 2),
     IType(OP.REGIMM, 1, RZ.BLTZAL, 2)}

DelaySlots ==
    {RType(0, 0, 0, 0, FUNCT.SLL),
     RType(0, 0, 0, 0, FUNCT.SYSCALL),
     IType(OP.ORI, 0, 4, 1),
     IType(OP.BEQ, 0, 0, 3),
     JType(OP.J, \h0FC00020)}

Programs ==
    {<<a, b, c>> : a \in Slot1, b \in Slot2, c \in Slot3}
        \cup {<<a, b, c, d>> : a \in Bases, b \in Setups, c \in Transfers, d \in DelaySlots}

Init ==
    /\ bios \in {ImageOf(prog) : prog \in Programs}
    /\ ram = [o \in {} |-> 0]
    /\ cpu = CpuR3000_new
    /\ overflow_checks \in BOOLEAN
    /\ fatal = "none"
    /\ hist = <<>>

\* the machine after a step with outcome r
Stepped(r) ==
    IF r.ok
    THEN /\ ram' = r.mb.ram
         /\ cpu' = r.mb.cpu
         /\ hist' = Remember(hist, r.info)
         /\ UNCHANGED <<bios, overflow_checks, fatal>>
    ELSE /\ fatal' = r.stage
         /\ UNCHANGED <<bios, ram, cpu, overflow_checks, hist>>

\* Motherboard::tick: one step of the CPU; a step that aborts ends the process
Motherboard_tick ==
    /\ fatal = "none"
    /\ cpu.cycles < MaxSteps
    /\ Stepped(exec(Motherboard))

Next == Motherboard_tick

Spec == Init /\ [][Next]_vars

\* ------------------------------------- the arithmetic handlers on their own

\* number of handler applications
MaxApplies == 2

\* register contents the handlers are applied to
Operands ==
    {Zero32, U32(0, 1), U32(\h7FFF, \hFFFF), U32(\h8000, \h0000),
     U32(\hFFFF, \hFFFF), U32(\h4000, \h0000)}

\* a CPU with r1 = a, r2 = b and marks in r3, HI and LO
InitAlu ==
    /\ bios = [o \in {} |-> 0]
    /\ ram = [o \in {} |-> 0]
    /\ \E a \in Operands, b \in Operands :
           cpu = [CpuR3000_new EXCEPT
                      !.state.registers = [i \in 0..31 |->
                          CASE i = 1 -> a [] i = 2 -> b [] i = 3 -> U32(\h5A5A, \h5A5A)
                            [] OTHER -> Zero32],
                      !.state.hi = U32(\h0000, \h1111),
                      !.state.lo = U32(\h0000, \h2222)]
    /\ overflow_checks \in BOOLEAN
    /\ fatal = "none"
    /\ hist = <<>>

\* what one handler application observed
HandlerInfo(mnemonic, s, t, d, imm, h) ==
    [mnemonic |-> mnemonic, s |-> s, t |-> t, d |-> d, imm |-> imm,
     seen |-> cpu.state.registers,
     after |-> h.mb.cpu.state.registers,
     hilo_seen |-> <<cpu.state.hi, cpu.state.lo>>,
     hilo_after |-> <<h.mb.cpu.state.hi, h.mb.cpu.state.lo>>,
     res |-> h.res]

\* a handler applied to the machine as it stands; an abort ends the run
Apply(mnemonic, s, t, d, imm, h) ==
    /\ fatal = "none"
    /\ Len(hist) < MaxApplies
    /\ cpu' = h.mb.cpu
    /\ ram' = h.mb.ram
    /\ hist' = Append(hist, HandlerInfo(mnemonic, s, t, d, imm, h))
    /\ fatal' = IF h.res = PANIC THEN "handler" ELSE "none"
    /\ UNCHANGED <<bios, overflow_checks>>

Apply_op_add == Apply("ADD", 1, 2, 3, 0, op_add(Motherboard, RType(1, 2, 3, 0, FUNCT.ADD)))

Apply_op_sub == Apply("SUB", 1, 2, 3, 0, op_sub(Motherboard, RType(1, 2, 3, 0, FUNCT.SUB)))

Apply_op_addu == Apply("ADDU", 1, 2, 1, 0, op_addu(Motherboard, RType(1, 2, 1, 0, FUNCT.ADDU)))

Apply_op_subu == Apply("SUBU", 1, 2, 1, 0, op_subu(Motherboard, RType(1, 2, 1, 0, FUNCT.SUBU)))

Apply_op_addi ==
    \E imm \in {1, \h8000, \hFFFF} :
        Apply("ADDI", 1, 3, 3, imm, op_addi(Motherboard, IType(OP.ADDI, 1, 3, imm)))

Apply_op_addiu ==
    \E imm \in {\h7FFF, \h8000} :
        Apply("ADDIU", 1, 1, 1, imm, op_addiu(Motherboard, IType(OP.ADDIU, 1, 1, imm)))

NextAlu ==
    \/ Apply_op_add
    \/ Apply_op_sub
    \/ Apply_op_addu
    \/ Apply_op_subu
    \/ Apply_op_addi
    \/ Apply_op_addiu

SpecAlu == InitAlu /\ [][NextAlu]_vars

\* ------------------------------------------------------------ properties

\* the loads that deposit a pending load, the jumps and the conditional branches
Loads == {"LB", "LBU", "LH", "LHU", "LW", "MFCz"}

Jumps == {"J", "JAL", "JR", "JALR"}

Branches == {"BEQ", "BNE", "BGEZ", "BGTZ", "BLEZ", "BLTZ", "BGEZAL", "BLTZAL"}

\* the step completed without an exception
Succeeded(h) == h.res = "None"

\* the step transferred control: a jump, or a branch that moved the PC
TakenTransfer(h) ==
    /\ Succeeded(h)
    /\ \/ h.mnemonic \in Jumps
       \/ h.mnemonic \in Branches /\ h.pc_after # wrapping_add(h.fetch_pc, FOUR)

\* C1: load delay. For every load with destination rt # 0 executed in step n,
\* the instruction executed in step n+1 finds in rt the value rt held when the
\* load completed, and the loaded value is what the instruction of step n+2
\* finds there (unless step n+1 wrote rt itself).
C1_LoadDelay ==
    \A n \in 1..(Len(hist) - 1) :
        LET dest == rt(hist[n].instr) IN
        (hist[n].mnemonic \in Loads /\ Succeeded(hist[n]) /\ dest # 0) =>
            /\ hist[n + 1].seen[dest] = hist[n].after[dest]
            /\ (n + 2 <= Len(hist) /\ hist[n + 1].after[dest] = hist[n + 1].seen[dest]) =>
                   hist[n + 2].seen[dest] = hist[n + 1].load[2]

\* C2 as stated: for every taken branch or jump at A whose delay-slot
\* instruction raises no exception, the executed addresses go A, A+4, target.
C2_BranchDelay_AsStated ==
    \A n \in 1..(Len(hist) - 2) :
        (TakenTransfer(hist[n]) /\ Succeeded(hist[n + 1])) =>
            /\ hist[n + 1].pc = wrapping_add(hist[n].pc, FOUR)
            /\ hist[n + 2].pc = hist[n].pc_after

\* C2 amended: for every taken branch or jump at A that is not itself in the
\* delay slot of a taken branch or jump and whose delay-slot instruction
\* raises no exception, the executed addresses go A, A+4, target.
C2_BranchDelay ==
    \A n \in 2..(Len(hist) - 2) :
        (TakenTransfer(hist[n]) /\ ~TakenTransfer(hist[n - 1]) /\ Succeeded(hist[n + 1])) =>
            /\ hist[n + 1].pc = wrapping_add(hist[n].pc, FOUR)
            /\ hist[n + 2].pc = hist[n].pc_after

\* a taken transfer outside a delay slot has been followed by its delay slot
\* and by the instruction at a target that is not the fall-through address
C2_Witness ==
    \E n \in 2..(Len(hist) - 2) :
        /\ TakenTransfer(hist[n]) /\ ~TakenTransfer(hist[n - 1]) /\ Succeeded(hist[n + 1])
        /\ hist[n + 2].pc = hist[n].pc_after
        /\ hist[n].pc_after # wrapping_add(hist[n].pc, U32(0, 8))

\* C3: register 0 is a write-sink. After every handler registers[0] is 0 and
\* every handler that reads register 0 finds 0 there.
C3_ZeroRegister ==
    /\ cpu.state.registers[0] = Zero32
    /\ \A n \in 1..Len(hist) :
           hist[n].seen[0] = Zero32 /\ hist[n].after[0] = Zero32

\* the most recent step
Last == hist[Len(hist)]

\* C4: exception step. When a handler returns an exception the step ends with
\* the pending load (0, 0), the pending instruction (word at V, V) and
\* PC = V + 4, V the vector Cop0 returned; the next step executes the
\* instruction at V, and the fetch at V never aborts the process.
C4_ExceptionStep ==
    /\ fatal # "vector"
    /\ (hist # <<>> /\ ~Succeeded(Last)) =>
           /\ cpu.state.next_load = <<0, Zero32>>
           /\ cpu.state.next_instruction =
                  <<mb_read(Motherboard, 4, Last.vector).data, Last.vector>>
           /\ cpu.state.pc = wrapping_add(Last.vector, FOUR)
    /\ \A n \in 1..(Len(hist) - 1) :
           ~Succeeded(hist[n]) =>
               /\ hist[n + 1].pc = hist[n].vector
               /\ hist[n + 1].load = <<0, Zero32>>

\* a handler returned an exception and the next step executed the vector
C4_Witness ==
    \E n \in 1..(Len(hist) - 1) :
        ~Succeeded(hist[n]) /\ hist[n + 1].pc = hist[n].vector /\ hist[n].vector # Zero32

\* SR bit 22 (BEV) as Cop0 holds it now
Bev == and32(cpu.cop0.sr, U32(\h0040, \h0000)) # Zero32

\* the previous step executed no jump and no branch
NotInDelaySlot(n) == n >= 2 /\ hist[n - 1].mnemonic \notin (Jumps \cup Branches)

\* C5: a SYSCALL (code 8) or BREAK (code 9) at A that is not in a delay slot
\* leaves EPC = A and Cause = code << 2, and the next instruction executed is
\* at 0x8000_0080 (BEV clear) or 0xBFC0_0180 (BEV set); whenever an exception
\* is taken, of all exceptions that could have been raised in its place only
\* TLBModification, TLBLoad and TLBStore select 0x8000_0000 / 0xBFC0_0100.
C5_SyscallBreak ==
    /\ (hist # <<>> /\ Last.mnemonic \in {"SYSCALL", "BREAK"} /\ NotInDelaySlot(Len(hist))) =>
           /\ cpu.cop0.epc = Last.pc
           /\ cpu.cop0.cause = U32(0, (IF Last.mnemonic = "SYSCALL" THEN 8 ELSE 9) * 4)
           /\ cpu.state.next_instruction[2] =
                  (IF Bev THEN U32(\hBFC0, \h0180) ELSE U32(\h8000, \h0080))
    /\ \A n \in 1..(Len(hist) - 1) :
           hist[n].mnemonic \in {"SYSCALL", "BREAK"} =>
               /\ hist[n + 1].pc = hist[n].vector
               /\ hist[n].vector \in {U32(\hBFC0, \h0180), U32(\h8000, \h0080)}
    /\ (hist # <<>> /\ ~Succeeded(Last)) =>
           \A e \in DOMAIN Exception :
               LET before == [cpu EXCEPT !.cop0 = Last.cop0_seen]
                   v == handle_exception(before, e, Last.pc, Last.is_in_delay_slot).addr
               IN  IF e \in {"TLBModification", "TLBLoad", "TLBStore"}
                   THEN v = (IF Bev THEN U32(\hBFC0, \h0100) ELSE U32(\h8000, \h0000))
                   ELSE v = (IF Bev THEN U32(\hBFC0, \h0180) ELSE U32(\h8000, \h0080))

\* a SYSCALL or BREAK outside a delay slot was taken with BEV set and the
\* instruction at the vector has executed
C5_Witness ==
    /\ Len(hist) >= 3
    /\ hist[Len(hist) - 1].mnemonic \in {"SYSCALL", "BREAK"}
    /\ NotInDelaySlot(Len(hist) - 1)
    /\ Bev
    /\ Last.pc = U32(\hBFC0, \h0180)

\* C6: an exception raised in the delay slot of a jump or conditional branch
\* at B sets Cause bit 31 and EPC = B; outside a delay slot Cause bit 31 is
\* clear and EPC is the faulting address. The latch is true at the start of a
\* step exactly when the previous step executed a jump or branch.
C6_DelaySlotException ==
    /\ (Len(hist) >= 2 /\ ~Succeeded(Last)) =>
           IF NotInDelaySlot(Len(hist))
           THEN /\ ~is_negative(cpu.cop0.cause)
                /\ cpu.cop0.epc = Last.pc
           ELSE /\ is_negative(cpu.cop0.cause)
                /\ cpu.cop0.epc = wrapping_sub(Last.pc, FOUR)
    /\ \A n \in 2..Len(hist) : hist[n].is_in_delay_slot <=> ~NotInDelaySlot(n)

\* the last two steps executed ADDI r1, r0, 0x7FFF (register 0 reading 0) and
\* then, at the next address, ADD r1, r1, r1
AddiAddScenario ==
    /\ Len(hist) >= 2
    /\ hist[Len(hist) - 1].instr = IType(OP.ADDI, 0, 1, \h7FFF)
    /\ hist[Len(hist) - 1].seen[0] = Zero32
    /\ Succeeded(hist[Len(hist) - 1])
    /\ Last.instr = RType(1, 1, 1, 0, FUNCT.ADD)
    /\ Last.pc = wrapping_add(hist[Len(hist) - 1].pc, FOUR)

\* C8 as stated: after ADDI r1, r0, 0x7FFF; ADD r1, r1, r1 the ADD has
\* overflowed: r1 is unchanged by it, the PC is redirected to the general
\* exception vector, EPC is the address of the ADD and the Cause code is 12.
C8_Scenario_AsStated ==
    AddiAddScenario =>
        /\ Last.res = "IntegerOverflow"
        /\ cpu.state.registers[1] = Last.seen[1]
        /\ cpu.state.next_instruction[2] =
               (IF Bev THEN U32(\hBFC0, \h0180) ELSE U32(\h8000, \h0080))
        /\ cpu.cop0.epc = Last.pc
        /\ and32(shr(cpu.cop0.cause, 2), U32(0, \b11111)) = U32(0, 12)

\* C8 amended: after ADDI r1, r0, 0x7FFF; ADD r1, r1, r1 the ADD has raised
\* no exception: r1 = 0x0000_FFFE, the PC has advanced by 4 and Cop0 (EPC,
\* Cause, SR) is as it was before the ADD.
C8_Scenario ==
    AddiAddScenario =>
        /\ Succeeded(Last)
        /\ Last.seen[1] = U32(0, \h7FFF)
        /\ cpu.state.registers[1] = U32(0, \hFFFE)
        /\ cpu.state.pc = wrapping_add(Last.fetch_pc, FOUR)
        /\ cpu.cop0 = Last.cop0_seen

\* the pair has executed
C8_Witness == AddiAddScenario

\* C9: a JAL at A leaves r31 = A + 8 and transfers, after its delay slot, to
\* ((A + 4) & 0xF000_0000) | (target26 << 2), target26 bits 25..0 of the
\* word; J transfers to the same address and writes no register.
C9_JumpTarget ==
    \A n \in 1..Len(hist) :
        (hist[n].mnemonic \in {"J", "JAL"} /\ Succeeded(hist[n])) =>
            LET A4 == wrapping_add(hist[n].pc, FOUR)
                target26 == and32(hist[n].instr, U32(\h03FF, \hFFFF))
                dest == or32(and32(A4, U32(\hF000, \h0000)), shl(target26, 2))
            IN  /\ hist[n].pc_after = dest
                /\ hist[n].mnemonic = "JAL" =>
                       hist[n].after[31] = wrapping_add(hist[n].pc, U32(0, 8))
                /\ hist[n].mnemonic = "J" => hist[n].after = hist[n].seen
                /\ (n + 2 <= Len(hist) /\ Succeeded(hist[n + 1])) => hist[n + 2].pc = dest

\* C10: after every step in which no exception occurred the PC is a multiple
\* of 4.
C10_PcAligned ==
    /\ \A n \in 1..Len(hist) : Succeeded(hist[n]) => Lo(hist[n].pc_after) % 4 = 0
    /\ (hist # <<>> /\ Succeeded(Last)) => Lo(cpu.state.pc) % 4 = 0

\* a signed 32-bit value as an exact integer in two parts: hi * 2^16 + lo,
\* with lo in 0..2^16-1; sums and differences of two of them, unreduced
SignedHi(a) == IF Hi(a) >= 2^15 THEN Hi(a) - Half ELSE Hi(a)

ExactSum(a, b) ==
    [hi |-> SignedHi(a) + SignedHi(b) + ((Lo(a) + Lo(b)) \div Half),
     lo |-> (Lo(a) + Lo(b)) % Half]

ExactDiff(a, b) ==
    [hi |-> SignedHi(a) - SignedHi(b) - (IF Lo(a) < Lo(b) THEN 1 ELSE 0),
     lo |-> (Lo(a) - Lo(b)) % Half]

\* the exact value lies in [-2^31, 2^31 - 1]; the value modulo 2^32
Fits(x) == x.hi \in (-(2^15))..(2^15 - 1)

Mod32(x) == U32(x.hi % Half, x.lo)

\* a 16-bit immediate sign-extended
SignExt16(imm) == U32(IF imm >= 2^15 THEN \hFFFF ELSE 0, imm)

\* the exact result the instruction of h asks for
ExactResult(h) ==
    CASE h.mnemonic \in {"ADD", "ADDU"} -> ExactSum(h.seen[h.s], h.seen[h.t])
      [] h.mnemonic \in {"SUB", "SUBU"} -> ExactDiff(h.seen[h.s], h.seen[h.t])
      [] h.mnemonic \in {"ADDI", "ADDIU"} -> ExactSum(h.seen[h.s], SignExt16(h.imm))

\* C7: ADD, SUB and ADDI return IntegerOverflow and change no general
\* register, HI or LO whenever the exact signed result lies outside
\* [-2^31, 2^31 - 1], and otherwise write the result to the destination and
\* succeed; ADDU, SUBU and ADDIU never raise and write the result modulo 2^32.
C7_SignedOverflow ==
    \A n \in 1..Len(hist) :
        LET h == hist[n]
            x == ExactResult(h)
            written == [h.seen EXCEPT ![h.d] = Mod32(x)]
        IN  /\ h.hilo_after = h.hilo_seen
            /\ IF h.mnemonic \in {"ADD", "SUB", "ADDI"} /\ ~Fits(x)
               THEN h.res = "IntegerOverflow" /\ h.after = h.seen
               ELSE h.res = "None" /\ h.after = written

\* a signed addition or subtraction has overflowed, and an unsigned one has
\* wrapped past 2^32
C7_Witness ==
    /\ \E n \in 1..Len(hist) :
           hist[n].mnemonic \in {"ADD", "SUB", "ADDI"} /\ ~Fits(ExactResult(hist[n]))
    /\ \E n \in 1..Len(hist) :
           /\ hist[n].mnemonic \in {"ADDU", "SUBU", "ADDIU"}
           /\ ~Fits(ExactResult(hist[n]))
           /\ hist[n].after[hist[n].d] = Mod32(ExactResult(hist[n]))

\* C11: at power-on the PC is the reset vector 0xBFC0_0000, and the first step
\* after reset fetches from that address: it reads the bus at the reset
\* vector, so the second step executes the first word of the BIOS image at
\* address 0xBFC0_0000.
C11_ResetVector ==
    /\ cpu.cycles = 0 => cpu.state.pc = MagicAddress.ResetVector
    /\ Len(hist) >= 1 /\ cpu.cycles = Len(hist) =>
           hist[1].fetch_pc = MagicAddress.ResetVector
    /\ Len(hist) >= 2 /\ cpu.cycles = Len(hist) =>
           /\ hist[2].pc = MagicAddress.ResetVector
           /\ hist[2].instr = rom_read(bios, 4, 0)

\* the second step after reset has run and executed a non-zero first word
C11_Witness ==
    /\ cpu.cycles = 2
    /\ Len(hist) = 2
    /\ hist[1].fetch_pc = MagicAddress.ResetVector
    /\ hist[2].instr # Zero32
    /\ hist[2].instr # rom_read(bios, 4, 4)

\* ------------------------------------------------- the decoder on its own

\* enum Mnemonic without the __ILLEGAL__ sentinel: the mnemonics match_handler
\* has a handler for
Mnemonics ==
    {"ADD", "ADDI", "ADDIU", "ADDU", "AND", "ANDI", "BEQ", "BGEZ", "BGEZAL",
     "BGTZ", "BLEZ", "BLTZ", "BLTZAL", "BNE", "BREAK", "CFCz", "COPz", "CTCz",
     "DIV", "DIVU", "J", "JAL", "JALR", "JR", "LB", "LBU", "LH", "LHU", "LUI",
     "LW", "LWCz", "LWL", "LWR", "MFCz", "MFHI", "MFLO", "MTCz", "MTHI",
     "MTLO", "MULT", "MULTU", "NOR", "OR", "ORI", "SB", "SH", "SLL", "SLLV",
     "SLT", "SLTI", "SLTIU", "SLTU", "SRA", "SRAV", "SRL", "SRLV", "SUB",
     "SUBU", "SW", "SWCz", "SWL", "SWR", "SYSCALL", "XOR", "XORI"}

\* the words of the decoder tests
TestWords ==
    {U32(\h3000, \h0000), U32(\h0000, \h000D), U32(\h0400, \h0000),
     U32(\h4200, \h0000), U32(\h408C, \h6000)}

\* the words the decoder is applied to.  decode_instruction looks at op, at
\* funct when op is SPECIAL, at rt when op is REGIMM and at rs when op >> 2 is
\* COPz, so the words take every value of each of these fields, with the
\* other fields all zero, all one or mixed
DecodeWords ==
    {RType(0, 0, 0, 0, fn) : fn \in 0..63}
        \cup {RType(3, 5, 7, 21, fn) : fn \in 0..63}
        \cup {IType(OP.REGIMM, 0, t, 0) : t \in 0..31}
        \cup {IType(o, 0, 0, 0) : o \in 0..63}
        \cup {IType(o, 31, 31, \hFFFF) : o \in 0..63}
        \cup {IType(o, s, 0, 0) : o \in 16..19, s \in 0..31}
        \cup TestWords

\* a CPU about to execute the word w
InitDecode ==
    /\ bios = [o \in {} |-> 0]
    /\ ram = [o \in {} |-> 0]
    /\ \E w \in DecodeWords :
           cpu = [CpuR3000_new EXCEPT !.state.next_instruction = <<w, Zero32>>]
    /\ overflow_checks \in BOOLEAN
    /\ fatal = "none"
    /\ hist = <<>>

\* what decode_instruction returned for a word: the mnemonic and the views of
\* the Instruction
DecodeInfo(word, mnemonic) ==
    [word |-> word,
     mnemonic |-> mnemonic,
     op |-> op(word),
     rs |-> rs(word),
     rt |-> rt(word),
     rd |-> rd(word),
     shamt |-> shamt(word),
     funct |-> funct(word),
     immediate |-> immediate(word),
     target |-> target(word)]

\* decode_instruction returned mnemonic for the pending word, or aborted
Decoded(word, mnemonic) ==
    IF mnemonic = PANIC
    THEN /\ fatal' = "decode"
         /\ UNCHANGED <<bios, ram, cpu, overflow_checks, hist>>
    ELSE /\ hist' = <<DecodeInfo(word, mnemonic)>>
         /\ UNCHANGED <<bios, ram, cpu, overflow_checks, fatal>>

\* decode_instruction applied to the pending word
Apply_decode_instruction ==
    /\ fatal = "none"
    /\ hist = <<>>
    /\ Decoded(cpu.state.next_instruction[1],
               decode_instruction(cpu.state.next_instruction[1]))

\* the handler of a decoded word returned h, or aborted
Executed(mnemonic, h) ==
    IF h.res = PANIC
    THEN /\ fatal' = "handler"
         /\ UNCHANGED <<bios, ram, cpu, overflow_checks, hist>>
    ELSE /\ cpu' = h.mb.cpu
         /\ ram' = h.mb.ram
         /\ hist' = Append(hist, [mnemonic |-> mnemonic, res |-> h.res])
         /\ UNCHANGED <<bios, overflow_checks, fatal>>

\* match_handler: the handler of the decoded mnemonic applied to the word
Apply_match_handler ==
    /\ fatal = "none"
    /\ Len(hist) = 1
    /\ "word" \in DOMAIN hist[1]
    /\ Executed(hist[1].mnemonic,
                match_handler(hist[1].mnemonic, Motherboard, hist[1].word))

\* the words that decode to a mnemonic
WordsFor ==
    [m \in Mnemonics |-> {w \in DecodeWords : decode_instruction(w) = m}]

\* the decoder round trip on the CPU as constructed: the words found to decode
\* to a mnemonic
Apply_round_trip ==
    /\ fatal = "none"
    /\ hist = <<>>
    /\ cpu = CpuR3000_new
    /\ \E m \in Mnemonics : hist' = <<[search |-> m, words |-> WordsFor[m]]>>
    /\ UNCHANGED <<bios, ram, cpu, overflow_checks, fatal>>

NextDecode ==
    \/ Apply_decode_instruction
    \/ Apply_match_handler
    \/ Apply_round_trip

SpecDecode == InitDecode /\ [][NextDecode]_vars

\* the decoded word a state holds, if decode_instruction has returned
HasDecoded == Len(hist) >= 1 /\ "word" \in DOMAIN hist[1]

\* C12: for every 32-bit word w the Instruction accessors return
\* op = w[31:26], rs = w[25:21], rt = w[20:16], rd = w[15:11],
\* shamt = w[10:6] (5 bits), funct = w[5:0] (6 bits), immediate = w[15:0] and
\* target = w[25:0] (26 bits).
C12_InstructionFields ==
    HasDecoded =>
        LET e == hist[1]
            w == hist[1].word
        IN  /\ e.op = Hi(w) \div 1024
            /\ e.rs = (Hi(w) \div 32) % 32
            /\ e.rt = Hi(w) % 32
            /\ e.rd = Lo(w) \div 2048
            /\ e.shamt = (Lo(w) \div 64) % 32
            /\ e.funct = Lo(w) % 64
            /\ e.immediate = Lo(w)
            /\ e.target = U32(Hi(w) % 1024, Lo(w))

\* the opcodes and the SPECIAL functs that are defined
DefinedOp(o) ==
    \/ o \in {OP[n] : n \in DirectOps \cup {"SPECIAL", "REGIMM"}}
    \/ o \div 4 \in {OP.COPz, OP.LWCz, OP.SWCz}

DefinedFunct(f) == f \in {FUNCT[n] : n \in DOMAIN FUNCT}

\* a word whose op, or whose funct (bits 5..0) when op is SPECIAL, is outside
\* the defined set
IllegalWord(w) ==
    \/ ~DefinedOp(Hi(w) \div 1024)
    \/ Hi(w) \div 1024 = OP.SPECIAL /\ ~DefinedFunct(Lo(w) % 64)

\* C13: for every word whose op, or whose funct when op is SPECIAL, falls
\* outside the defined set, decode_instruction returns the ILLEGAL sentinel
\* without aborting, and executing the word raises ReservedInstruction.
C13_IllegalWord ==
    IllegalWord(cpu.state.next_instruction[1]) =>
        /\ fatal = "none"
        /\ HasDecoded => hist[1].mnemonic = ILLEGAL
        /\ HasDecoded /\ Len(hist) = 2 => hist[2].res = "ReservedInstruction"

\* the mnemonic each word of the decoder tests has to decode to
TestMnemonic(w) ==
    CASE w = U32(\h3000, \h0000) -> "ANDI"
      [] w = U32(\h0000, \h000D) -> "BREAK"
      [] w = U32(\h0400, \h0000) -> "BLTZ"
      [] w = U32(\h4200, \h0000) -> "COPz"
      [] w = U32(\h408C, \h6000) -> "MTCz"

\* C14: for every mnemonic of the closed enumeration there is at least one
\* word that decode_instruction maps to it, and 0x3000_0000 decodes to ANDI,
\* 0x0000_000D to BREAK, 0x0400_0000 to BLTZ, 0x4200_0000 to COPz and
\* 0x408C_6000 to MTCz.
C14_RoundTrip ==
    /\ cpu.state.next_instruction[1] \in TestWords =>
           /\ fatal # "decode"
           /\ HasDecoded => hist[1].mnemonic = TestMnemonic(hist[1].word)
    /\ Len(hist) >= 1 /\ "search" \in DOMAIN hist[1] => hist[1].words # {}

\* ---------------------------------------------- the address map on its own

\* offsets in the 256 MiB window: the first two and the last address of every
\* device range and the address after it
WindowOffsets ==
    UNION {{RANGES[i][2].start,
            wrapping_add(RANGES[i][2].start, U32(0, 1)),
            wrapping_sub(RANGES[i][2].end, U32(0, 1)),
            RANGES[i][2].end} : i \in DOMAIN RANGES}

\* the first address of each 256 MiB block of KUSEG, KSEG0 and KSEG1 that the
\* addresses are taken from
BlockBases ==
    {U32(\h0000, \h0000), U32(\h1000, \h0000), U32(\h2000, \h0000),
     U32(\h7000, \h0000), U32(\h8000, \h0000), U32(\h9000, \h0000),
     U32(\hA000, \h0000), U32(\hB000, \h0000)}

\* addresses at the ends of the segments and around the cache-control range
EdgeAddrs ==
    {U32(\h2000, \h0000), U32(\h2000, \h0001), U32(\h3FC0, \h0000),
     U32(\h7FFF, \hFFFF), U32(\h9FFF, \hFFFF), U32(\hBFFF, \hFFFF),
     U32(\hC000, \h0000), U32(\hCF80, \h0000), U32(\hFFFD, \hFFFF),
     U32(\hFFFE, \h0000), U32(\hFFFE, \h0001), U32(\hFFFE, \h01FF),
     U32(\hFFFE, \h0200), U32(\hFFFF, \hFFFF)}

\* the addresses map_device is applied to
MapAddrs ==
    {or32(b, and32(o, SEG_LOCAL_MASK)) : b \in BlockBases, o \in WindowOffsets}
        \cup EdgeAddrs

\* a CPU about to fetch from the address addr
InitMap ==
    /\ bios = [o \in {} |-> 0]
    /\ ram = [o \in {} |-> 0]
    /\ \E addr \in MapAddrs : cpu = [CpuR3000_new EXCEPT !.state.pc = addr]
    /\ overflow_checks = FALSE
    /\ fatal = "none"
    /\ hist = <<>>

\* the mask of the segment bits that separate an address from its mirrors
KSEG0_BIT == U32(\h8000, \h0000)

KSEG1_BITS == U32(\hA000, \h0000)

\* map_device applied to the address the CPU is about to fetch from and to the
\* two addresses that differ from it in the segment bits
Apply_map_device ==
    /\ fatal = "none"
    /\ hist = <<>>
    /\ hist' = <<[addr |-> cpu.state.pc,
                  at |-> map_device(cpu.state.pc),
                  at_kseg0_bit |-> map_device(xor32(cpu.state.pc, KSEG0_BIT)),
                  at_kseg1_bits |-> map_device(xor32(cpu.state.pc, KSEG1_BITS))]>>
    /\ UNCHANGED <<bios, ram, cpu, overflow_checks, fatal>>

NextMap == Apply_map_device

SpecMap == InitMap /\ [][NextMap]_vars

\* the mappings a state holds, if map_device has been applied
HasMapped == Len(hist) >= 1 /\ "at" \in DOMAIN hist[1]

\* map_device returned a mapping rather than aborting
Returns(m) == m.dev # PANIC

\* C15: address-map mirroring: for every address reachable from all three of
\* KUSEG, KSEG0 and KSEG1, map_device gives the same device and the same
\* device-local offset for addr, addr XOR 0x8000_0000 and addr XOR
\* 0xA000_0000; only the segment tag differs (KUSEG, KSEG0 and KSEG1 for an
\* address of the first 512 MiB).
C15_Mirroring ==
    HasMapped =>
        LET e == hist[1] IN
        Returns(e.at) /\ Returns(e.at_kseg0_bit) /\ Returns(e.at_kseg1_bits) =>
            /\ e.at_kseg0_bit.dev = e.at.dev
            /\ e.at_kseg1_bits.dev = e.at.dev
            /\ e.at_kseg0_bit.local = e.at.local
            /\ e.at_kseg1_bits.local = e.at.local
            /\ Hi(e.addr) < \h2000 =>
                   /\ e.at.seg = "KUSEG"
                   /\ e.at_kseg0_bit.seg = "KSEG0"
                   /\ e.at_kseg1_bits.seg = "KSEG1"

\* the BIOS base 0x1FC0_0000 has been mapped in the three segments
C15_Witness ==
    /\ HasMapped
    /\ hist[1].addr = U32(\h1FC0, \h0000)
    /\ hist[1].at = Mapping("KUSEG", "BIOS", Zero32)
    /\ hist[1].at_kseg0_bit = Mapping("KSEG0", "BIOS", Zero32)
    /\ hist[1].at_kseg1_bits = Mapping("KSEG1", "BIOS", Zero32)

\* the segment the spec puts an address in
SegmentByRange(addr) ==
    IF Hi(addr) < \h8000 THEN "KUSEG"
    ELSE IF Hi(addr) < \hA000 THEN "KSEG0"
    ELSE IF Hi(addr) < \hC000 THEN "KSEG1"
    ELSE "KSEG2"

\* the address folds into the 1 KiB scratchpad range of KUSEG, KSEG0 or KSEG1
InScratchpad(addr) ==
    /\ SegmentByRange(addr) # "KSEG2"
    /\ Hi(addr) % \h1000 = \h0F80
    /\ Lo(addr) < 1024

\* C16: the scratchpad is unreachable from KSEG1: map_device aborts for every
\* KSEG1 address that folds into the scratchpad range, while the KSEG0 and
\* KUSEG addresses that fold into it map to (segment, Scratch, offset).
C16_ScratchpadKseg1 ==
    HasMapped /\ InScratchpad(hist[1].addr) =>
        IF SegmentByRange(hist[1].addr) = "KSEG1"
        THEN ~Returns(hist[1].at)
        ELSE hist[1].at = Mapping(SegmentByRange(hist[1].addr), "Scratch",
                                  U32(0, Lo(hist[1].addr)))

\* map_device has aborted for 0xBF80_0000 and mapped its KUSEG mirror
C16_Witness ==
    /\ HasMapped
    /\ hist[1].addr = U32(\hBF80, \h0000)
    /\ ~Returns(hist[1].at)
    /\ hist[1].at_kseg0_bit = Mapping("KUSEG", "Scratch", Zero32)

\* C17: segment selection is total and exclusive (every address falls in
\* exactly one of KUSEG, KSEG0, KSEG1, KSEG2), and in KSEG2 only the 512-byte
\* cache-control range 0xFFFE_0000..0xFFFE_01FF is legal: it maps to
\* (KSEG2, IOCacheControl, addr - 0xFFFE_0000) and every other KSEG2 address
\* aborts.
C17_Kseg2 ==
    HasMapped =>
        /\ hist[1].at.seg = SegmentByRange(hist[1].addr)
        /\ SegmentByRange(hist[1].addr) = "KSEG2" =>
               IF Hi(hist[1].addr) = \hFFFE /\ Lo(hist[1].addr) < 512
               THEN hist[1].at = Mapping("KSEG2", "IOCacheControl",
                                         U32(0, Lo(hist[1].addr)))
               ELSE ~Returns(hist[1].at)

\* the last cache-control address has been mapped
C17_Witness ==
    /\ HasMapped
    /\ hist[1].addr = U32(\hFFFE, \h01FF)
    /\ hist[1].at = Mapping("KSEG2", "IOCacheControl", U32(0, \h01FF))

\* --------------------------------------- the divide handlers on their own

\* numerators and divisors: 0, 1, 2, 7, -1, -2, -7, i32::MAX, i32::MIN, 2^30
DivOperands ==
    {Zero32, U32(0, 1), U32(0, 2), U32(0, 7), U32(\hFFFF, \hFFFF),
     U32(\hFFFF, \hFFFE), U32(\hFFFF, \hFFF9), U32(\h7FFF, \hFFFF),
     U32(\h8000, \h0000), U32(\h4000, \h0000)}

\* a CPU with the numerator in r1, the divisor in r2 and marks in r3, HI and LO
InitDiv ==
    /\ bios = [o \in {} |-> 0]
    /\ ram = [o \in {} |-> 0]
    /\ \E a \in DivOperands, b \in DivOperands :
           cpu = [CpuR3000_new EXCEPT
                      !.state.registers = [i \in 0..31 |->
                          CASE i = 1 -> a [] i = 2 -> b [] i = 3 -> U32(\h5A5A, \h5A5A)
                            [] OTHER -> Zero32],
                      !.state.hi = U32(\h0000, \h1111),
                      !.state.lo = U32(\h0000, \h2222)]
    /\ overflow_checks \in BOOLEAN
    /\ fatal = "none"
    /\ hist = <<>>

Apply_op_div == Apply("DIV", 1, 2, 0, 0, op_div(Motherboard, RType(1, 2, 0, 0, FUNCT.DIV)))

Apply_op_divu == Apply("DIVU", 1, 2, 0, 0, op_divu(Motherboard, RType(1, 2, 0, 0, FUNCT.DIVU)))

NextDiv ==
    \/ Apply_op_div
    \/ Apply_op_divu

SpecDiv == InitDiv /\ [][NextDiv]_vars

\* the magnitude of a value read as an i32, as a u32
Magnitude(a) == IF Hi(a) >= 2^15 THEN wrapping_sub(Zero32, a) ELSE a

Negative(a) == Hi(a) >= 2^15

\* q and r are the quotient and the remainder of the unsigned division of n
\* by d: q * d + r = n without a carry out of 32 bits, and r < d
IsUnsignedDivision(n, d, q, r) ==
    LET p == MulCols(to_le_byteslice(4, q), to_le_byteslice(4, d), 0, 0)
        low == from_le_byteslice(4, SubSeq(MulCols(to_le_byteslice(4, q),
                                                    to_le_byteslice(4, d), 0, 0), 1, 4))
    IN  /\ lt_u32(r, d)
        /\ \A i \in 5..8 : p[i] = 0
        /\ ~add_overflows(low, r)
        /\ wrapping_add(low, r) = n

\* q and r are the quotient truncated toward zero and the remainder with the
\* sign of the numerator of the signed division of n by d
IsSignedDivision(n, d, q, r) ==
    /\ IsUnsignedDivision(Magnitude(n), Magnitude(d), Magnitude(q), Magnitude(r))
    /\ r = Zero32 \/ Negative(r) = Negative(n)
    /\ q = Zero32 \/ Negative(q) = (Negative(n) # Negative(d))

\* C18: DIV never raises: with divisor 0 it sets HI = numerator and
\* LO = 0xFFFF_FFFF if the numerator is non-negative, else LO = 1; for
\* INT_MIN / -1 it sets HI = 0 and LO = INT_MIN; in every other case LO is the
\* quotient truncated toward zero and HI the remainder with the sign of the
\* numerator.  No general register changes.
C18_Div ==
    \A k \in 1..Len(hist) :
        hist[k].mnemonic = "DIV" =>
            LET n == hist[k].seen[1]
                d == hist[k].seen[2]
                hi == hist[k].hilo_after[1]
                lo == hist[k].hilo_after[2]
            IN  /\ hist[k].res = "None"
                /\ hist[k].after = hist[k].seen
                /\ d = Zero32 =>
                       /\ hi = n
                       /\ lo = IF Negative(n) THEN U32(0, 1) ELSE U32(\hFFFF, \hFFFF)
                /\ n = U32(\h8000, \h0000) /\ d = U32(\hFFFF, \hFFFF) =>
                       hi = Zero32 /\ lo = U32(\h8000, \h0000)
                /\ d # Zero32 /\ ~(n = U32(\h8000, \h0000) /\ d = U32(\hFFFF, \hFFFF)) =>
                       IsSignedDivision(n, d, lo, hi)

\* DIV has divided -7 by 2: the quotient is -3 and the remainder -1
C18_Witness ==
    \E k \in 1..Len(hist) :
        /\ hist[k].mnemonic = "DIV"
        /\ hist[k].seen[1] = U32(\hFFFF, \hFFF9)
        /\ hist[k].seen[2] = U32(0, 2)
        /\ hist[k].hilo_after = <<U32(\hFFFF, \hFFFF), U32(\hFFFF, \hFFFD)>>

\* C19: DIVU never raises: with divisor 0 it sets HI = numerator and
\* LO = 0xFFFF_FFFF for every numerator, including those with bit 31 set;
\* otherwise LO is the unsigned quotient and HI the unsigned remainder.
C19_Divu ==
    \A k \in 1..Len(hist) :
        hist[k].mnemonic = "DIVU" =>
            LET n == hist[k].seen[1]
                d == hist[k].seen[2]
                hi == hist[k].hilo_after[1]
                lo == hist[k].hilo_after[2]
            IN  /\ hist[k].res = "None"
                /\ hist[k].after = hist[k].seen
                /\ d = Zero32 => hi = n /\ lo = U32(\hFFFF, \hFFFF)
                /\ d # Zero32 => IsUnsignedDivision(n, d, lo, hi)

\* ---------------------------------------- the store handlers on their own

\* base addresses: RAM through KUSEG and through KSEG0, the timers (a device
\* that takes writes and no reads) and the scratchpad (a device without a
\* write arm)
StoreBases ==
    {U32(\h0000, \h0040), U32(\h8000, \h0040), U32(\h1F80, \h1100), U32(\h1F80, \h0000)}

StoreOffsets == {0, 1, 3}

\* a CPU with the base address in r1 and the data 0xA1B2_C3D4 in r2, with the
\* cache isolated or not, over a RAM that is empty or holds 0x4433_2211 at 0x40
InitStore ==
    /\ bios = [o \in {} |-> 0]
    /\ ram \in {[o \in {} |-> 0], [o \in 64..67 |-> 17 * (o - 63)]}
    /\ \E base \in StoreBases, sr \in {Zero32, CACHE_ISOLATE} :
           cpu = [CpuR3000_new EXCEPT
                      !.state.registers = [i \in 0..31 |->
                          CASE i = 1 -> base [] i = 2 -> U32(\hA1B2, \hC3D4)
                            [] OTHER -> Zero32],
                      !.cop0.sr = sr]
    /\ overflow_checks \in BOOLEAN
    /\ fatal = "none"
    /\ hist = <<>>

\* what one store handler application observed
StoreInfo(mnemonic, w, imm, h) ==
    [mnemonic |-> mnemonic, w |-> w, imm |-> imm,
     addr |-> wrapping_add(cpu.state.registers[1], sign_extend(imm)),
     data |-> cpu.state.registers[2],
     isolated |-> is_cache_isolated(cpu.cop0),
     cpu_seen |-> cpu, cpu_after |-> h.mb.cpu,
     ram_seen |-> ram, ram_after |-> h.mb.ram,
     res |-> h.res]

\* a store handler applied to the machine as it stands; an abort ends the run
ApplyStore(mnemonic, w, imm, h) ==
    /\ fatal = "none"
    /\ Len(hist) < MaxApplies
    /\ cpu' = h.mb.cpu
    /\ ram' = h.mb.ram
    /\ hist' = Append(hist, StoreInfo(mnemonic, w, imm, h))
    /\ fatal' = IF h.res = PANIC THEN "handler" ELSE "none"
    /\ UNCHANGED <<bios, overflow_checks>>

Apply_op_sb ==
    \E imm \in StoreOffsets :
        ApplyStore("SB", 1, imm, op_sb(Motherboard, IType(OP.SB, 1, 2, imm)))

Apply_op_sh ==
    \E imm \in StoreOffsets :
        ApplyStore("SH", 2, imm, op_sh(Motherboard, IType(OP.SH, 1, 2, imm)))

Apply_op_sw ==
    \E imm \in StoreOffsets :
        ApplyStore("SW", 4, imm, op_sw(Motherboard, IType(OP.SW, 1, 2, imm)))

Apply_op_swl ==
    \E imm \in StoreOffsets :
        ApplyStore("SWL", 4, imm, op_swl(Motherboard, IType(OP.SWL, 1, 2, imm)))

Apply_op_swr ==
    \E imm \in StoreOffsets :
        ApplyStore("SWR", 4, imm, op_swr(Motherboard, IType(OP.SWR, 1, 2, imm)))

NextStore ==
    \/ Apply_op_sb
    \/ Apply_op_sh
    \/ Apply_op_sw
    \/ Apply_op_swl
    \/ Apply_op_swr

SpecStore == InitStore /\ [][NextStore]_vars

\* the store of entry e was dropped silently: no exception, no abort, and
\* neither the RAM nor the CPU changed
Dropped(e) ==
    /\ e.res = "None"
    /\ e.ram_after = e.ram_seen
    /\ e.cpu_after = e.cpu_seen

\* the aligned word around the address of entry e, in the RAM r
WordAround(e, r) == read_buf(r, 4, as_usize(map_device(aligned(e.addr)).local))

\* the store of entry e reached the RAM: SB, SH and SW left the low bits of
\* the register at the address, SWL and SWR left the register merged into the
\* aligned word around it
ReachedRam(e) ==
    /\ e.res = "None"
    /\ CASE e.mnemonic = "SWL" ->
               WordAround(e, e.ram_after)
                   = merge_left(lane(e.addr), WordAround(e, e.ram_seen), e.data)
         [] e.mnemonic = "SWR" ->
               WordAround(e, e.ram_after)
                   = merge_right(lane(e.addr), WordAround(e, e.ram_seen), e.data)
         [] OTHER ->
               read_buf(e.ram_after, e.w, as_usize(map_device(e.addr).local))
                   = from_u32(e.w, e.data)

\* C20: while the cache-isolated flag (SR bit 16) is set, every store (SB, SH,
\* SW, SWL, SWR) is dropped silently: no exception, no abort, and the state
\* of every bus device unchanged; when the flag is clear the store reaches the
\* bus.
C20_CacheIsolatedStores ==
    \A k \in 1..Len(hist) :
        /\ hist[k].isolated => Dropped(hist[k])
        /\ (/\ ~hist[k].isolated
            /\ map_device(hist[k].addr).dev = "RAM"
            /\ hist[k].mnemonic \in {"SWL", "SWR"} \/ is_aligned(hist[k].w, hist[k].addr))
               => ReachedRam(hist[k])

\* ------------------------------------------------------ the bus on its own

\* addresses on the bus: the four byte lanes of a RAM word, the BIOS through
\* the three segments, the memory-control ports, the interrupt ports, the
\* cache-control port, the SPU, the scratchpad, the peripheral ports and an
\* address past the end of the RAM
BusAddrs ==
    {U32(\h0000, \h0040), U32(\h0000, \h0041), U32(\h0000, \h0042), U32(\h0000, \h0043),
     U32(\h1FC0, \h0000), U32(\h9FC0, \h0004), U32(\hBFC0, \h0002), U32(\hBFC0, \h0001),
     U32(\h1F80, \h1000), U32(\h1F80, \h1010), U32(\h1F80, \h1070), U32(\h1F80, \h1074),
     U32(\h1F80, \h1076), U32(\hFFFE, \h0130), U32(\hFFFE, \h0131), U32(\h1F80, \h1C00),
     U32(\h1F80, \h0000), U32(\h1F80, \h1041), U32(\h0080, \h0002)}

BusData == {Zero32, U32(\h0000, \h0001), U32(\h1F00, \h0000)}

\* the first bytes of the BIOS image
BusImage == [o \in 0..7 |-> 16 + o]

\* a machine with the address of the accesses in r1 and the data of the
\* writes in r2, over a RAM that is empty or holds 0x4433_2211 at 0x40
InitBus ==
    /\ bios = BusImage
    /\ ram \in {[o \in {} |-> 0], [o \in 64..67 |-> 17 * (o - 63)]}
    /\ \E addr \in BusAddrs, data \in BusData :
           cpu = [CpuR3000_new EXCEPT
                      !.state.registers = [i \in 0..31 |->
                          CASE i = 1 -> addr [] i = 2 -> data [] OTHER -> Zero32]]
    /\ overflow_checks \in BOOLEAN
    /\ fatal = "none"
    /\ hist = <<>>

\* what one bus access observed
BusInfo(access, w, ok, some, value, after) ==
    [op |-> access, w |-> w,
     addr |-> cpu.state.registers[1],
     data |-> from_u32(w, cpu.state.registers[2]),
     ok |-> ok, some |-> some, value |-> value,
     ram_seen |-> ram, ram_after |-> after.ram,
     bios_seen |-> bios, bios_after |-> after.bios,
     cpu_same |-> after.cpu = cpu]

\* a bus access on the machine as it stands; an abort ends the run
ApplyBus(access, w, ok, some, value, after) ==
    /\ fatal = "none"
    /\ Len(hist) < MaxApplies
    /\ bios' = after.bios
    /\ ram' = after.ram
    /\ cpu' = after.cpu
    /\ hist' = Append(hist, BusInfo(access, w, ok, some, value, after))
    /\ fatal' = IF ok THEN "none" ELSE "bus"
    /\ UNCHANGED overflow_checks

ReadDone(w, r) == ApplyBus("read", w, r.ok, r.ok, r.data, Motherboard)

Motherboard_read ==
    \E w \in Widths : ReadDone(w, mb_read(Motherboard, w, cpu.state.registers[1]))

PeekDone(w, r) == ApplyBus("peek", w, r.ok, r.some, r.data, Motherboard)

Motherboard_peek ==
    \E w \in Widths : PeekDone(w, mb_peek(Motherboard, w, cpu.state.registers[1]))

WriteDone(w, r) == ApplyBus("write", w, r.ok, FALSE, Zero32, r.mb)

Motherboard_write ==
    \E w \in Widths :
        WriteDone(w, mb_write(Motherboard, w, cpu.state.registers[1],
                              from_u32(w, cpu.state.registers[2])))

NextBus ==
    \/ Motherboard_read
    \/ Motherboard_peek
    \/ Motherboard_write

SpecBus == InitBus /\ [][NextBus]_vars

\* the access of entry e is not aligned to its width
Misaligned(e) ==
    \/ e.w = 2 /\ Lo(e.addr) % 2 = 1
    \/ e.w = 4 /\ Lo(e.addr) % 4 # 0

\* the access of entry e ended in a fatal error with nothing modified
FatalUntouched(e) ==
    /\ ~e.ok
    /\ e.ram_after = e.ram_seen
    /\ e.bios_after = e.bios_seen
    /\ e.cpu_same

\* C21: every Motherboard read, write or peek whose address is not aligned to
\* the access width ends in a fatal error before any device or CPU state is
\* modified; byte accesses are never rejected for alignment (a byte access to
\* any lane of a RAM word succeeds).
C21_Alignment ==
    \A k \in 1..Len(hist) :
        /\ Misaligned(hist[k]) => FatalUntouched(hist[k])
        /\ hist[k].w = 1 /\ SegmentByRange(hist[k].addr) = "KUSEG"
               /\ Lo(hist[k].addr) \in 64..67 /\ Hi(hist[k].addr) = 0
               => hist[k].ok

\* a word write to RAM at an address with bit 1 set has ended in a fatal
\* error, after a byte access at an odd address that succeeded
C21_Witness ==
    /\ Len(hist) = 2
    /\ hist[1].w = 1 /\ hist[1].addr = U32(\h0000, \h0042) /\ hist[1].ok
    /\ hist[2].op = "write" /\ hist[2].w = 4 /\ hist[2].addr = U32(\h0000, \h0042)
    /\ ~hist[2].ok
    /\ fatal = "bus"

\* the access of entry e is to an address of the BIOS, in any segment
InBios(e) ==
    /\ Hi(e.addr) % \h2000 \in \h1FC0..\h1FC7
    /\ Hi(e.addr) < \hC000

\* C22: the BIOS image is immutable: every Motherboard write that maps to the
\* BIOS device, from any segment and at any width, is a fatal error, and
\* after any sequence of bus operations every BIOS byte equals the byte of
\* the image loaded at construction.
C22_BiosImmutable ==
    /\ [](\A k \in 1..Len(hist) :
              hist[k].op = "write" /\ InBios(hist[k]) => FatalUntouched(hist[k]))
    /\ [][bios' = bios]_vars

\* a write to the BIOS has ended in a fatal error after a read of the BIOS
\* that returned the bytes of the image
C22_Witness ==
    /\ Len(hist) = 2
    /\ hist[1].op = "read" /\ hist[1].w = 4 /\ hist[1].addr = U32(\h9FC0, \h0004)
    /\ hist[1].value = U32(\h1716, \h1514)
    /\ hist[2].op = "write" /\ hist[2].w = 4 /\ ~hist[2].ok
    /\ bios = BusImage

\* the access of entry e is to the cache-control port or to the
\* interrupt-mask port
ControlPort(e) == e.addr \in {U32(\hFFFE, \h0130), U32(\h1F80, \h1074)}

\* C23: a Motherboard write to the cache-control port or to the
\* interrupt-mask port is accepted (no state change, no abort) when the
\* written value is zero and is a fatal error when the written value is
\* nonzero.
C23_ControlPorts ==
    \A k \in 1..Len(hist) :
        hist[k].op = "write" /\ ControlPort(hist[k]) /\ ~Misaligned(hist[k]) =>
            IF hist[k].data = Zero32
            THEN /\ hist[k].ok
                 /\ hist[k].ram_after = hist[k].ram_seen
                 /\ hist[k].bios_after = hist[k].bios_seen
                 /\ hist[k].cpu_same
            ELSE ~hist[k].ok

\* ------------------------------------------------- the CPU tick on its own

MaxWait == 3

\* a machine after construction over one of the BIOS images, with the wait
\* counter set by the host
InitTick ==
    /\ bios \in {ImageOf(prog) : prog \in Programs}
    /\ ram = [o \in {} |-> 0]
    /\ \E n \in 0..MaxWait : cpu = [CpuR3000_new EXCEPT !.state.wait = n]
    /\ overflow_checks \in BOOLEAN
    /\ fatal = "none"
    /\ hist = <<>>

\* what one tick observed
TickInfo(r) ==
    [ready |-> r.ready,
     cpu_seen |-> cpu, cpu_after |-> r.mb.cpu,
     ram_seen |-> ram, ram_after |-> r.mb.ram]

Ticked(r) ==
    /\ fatal = "none"
    /\ Len(hist) < MaxWait + 1
    /\ cpu' = r.mb.cpu
    /\ ram' = r.mb.ram
    /\ hist' = Append(hist, TickInfo(r))
    /\ UNCHANGED <<bios, overflow_checks, fatal>>

cpu_tick == Ticked(tick(Motherboard))

NextTick == cpu_tick

SpecTick == InitTick /\ [][NextTick]_vars

\* C24: when the wait counter is greater than 0 a tick decrements it by
\* exactly one, executes no instruction, changes no other CPU or device state
\* and reports not-ready; when the wait counter is 0 a tick advances the
\* execution state by exactly one instruction (one more cycle counted, the
\* word at the old PC pending) and reports ready.  The wait counter never
\* goes below 0.
C24_Tick ==
    \A k \in 1..Len(hist) :
        LET seen == hist[k].cpu_seen
            after == hist[k].cpu_after
        IN  /\ after.state.wait >= 0
            /\ seen.state.wait > 0 =>
                   /\ ~hist[k].ready
                   /\ after = [seen EXCEPT !.state.wait = @ - 1]
                   /\ hist[k].ram_after = hist[k].ram_seen
            /\ seen.state.wait = 0 =>
                   /\ hist[k].ready
                   /\ after.cycles = seen.cycles + 1
                   /\ after.state.next_instruction[2] = seen.state.pc

\* ------------------------------------------------ the status register

\* values of SR: zero, a full mode stack, BEV with the stack 010101, and all
\* ones above the stack 101010
CopStatus ==
    {Zero32, U32(\h0000, \h003F), U32(\h0040, \h0015), U32(\hFFFF, \hFFEA)}

\* RFE
RfeWord == U32(\h4200, \h0010)

\* MTC0 r2, SR
MtcSrWord == CopType(\b00100, 2, 12)

\* one word of every instruction, with rs = 1, rt = 2 and rd = 3: the SPECIAL
\* functions, the REGIMM branches, the directly decoded opcodes, the
\* coprocessor loads and stores, and the COP0 moves and RFE
CopWords ==
    {RType(1, 2, 3, 0, FUNCT[f]) : f \in DOMAIN FUNCT}
        \cup {IType(OP.REGIMM, 1, RZ[z], 4) : z \in DOMAIN RZ}
        \cup {IType(OP[o], 1, 2, 4) : o \in DirectOps}
        \cup {IType(OP.LWCz * 4 + 2, 1, 2, 4), IType(OP.SWCz * 4 + 1, 1, 2, 4)}
        \cup {CopType(\b00000, 2, 12), CopType(\b00100, 2, 14), CopType(\b00010, 2, 12),
              IType(OP.COPz * 4 + 1, \b10000, 0, \h0010), MtcSrWord, RfeWord}

\* a CPU about to execute a word, with a RAM address in r1, a value for SR in
\* r2 and SR set
InitCop0 ==
    /\ bios = [o \in {} |-> 0]
    /\ ram = [o \in {} |-> 0]
    /\ \E w \in CopWords, sr \in CopStatus :
           cpu = [CpuR3000_new EXCEPT
                      !.state.next_instruction = <<w, Zero32>>,
                      !.state.registers = [i \in 0..31 |->
                          CASE i = 1 -> U32(\h0000, \h0040) [] i = 2 -> U32(\h0040, \h0003)
                            [] OTHER -> Zero32],
                      !.cop0.sr = sr]
    /\ overflow_checks \in BOOLEAN
    /\ fatal = "none"
    /\ hist = <<>>

\* what SR was and what it became
StatusInfo(kind, word, mnemonic, after) ==
    [kind |-> kind, word |-> word, mnemonic |-> mnemonic,
     sr_seen |-> cpu.cop0.sr, sr_after |-> after.cop0.sr]

\* the handler of the pending word returned h, or decoding or the handler
\* aborted
StatusExecuted(word, mnemonic, h) ==
    /\ fatal = "none"
    /\ Len(hist) < MaxApplies
    /\ IF mnemonic = PANIC \/ h.res = PANIC
       THEN /\ fatal' = "handler"
            /\ UNCHANGED <<bios, ram, cpu, overflow_checks, hist>>
       ELSE /\ cpu' = h.mb.cpu
            /\ ram' = h.mb.ram
            /\ hist' = Append(hist, StatusInfo("instruction", word, mnemonic, h.mb.cpu))
            /\ UNCHANGED <<bios, overflow_checks, fatal>>

\* the pending word decoded as mnemonic and handed to its handler
run_handler(mb, word, mnemonic) ==
    IF mnemonic = PANIC THEN Abort(mb) ELSE match_handler(mnemonic, mb, word)

Apply_instruction ==
    StatusExecuted(cpu.state.next_instruction[1],
                   decode_instruction(cpu.state.next_instruction[1]),
                   run_handler(Motherboard, cpu.state.next_instruction[1],
                               decode_instruction(cpu.state.next_instruction[1])))

\* exception entry with the cpu after it
StatusRaised(entered) ==
    /\ fatal = "none"
    /\ Len(hist) < MaxApplies
    /\ cpu' = entered
    /\ hist' = Append(hist, StatusInfo("exception", Zero32, "", entered))
    /\ UNCHANGED <<bios, ram, overflow_checks, fatal>>

Apply_handle_exception ==
    \E exc \in {"Syscall", "TLBLoad"}, is_delay_slot \in BOOLEAN :
        StatusRaised(handle_exception(cpu, exc, cpu.state.pc, is_delay_slot).cpu)

NextCop0 ==
    \/ Apply_instruction
    \/ Apply_handle_exception

SpecCop0 == InitCop0 /\ [][NextCop0]_vars

\* the six mode bits of a status value, and the bits above them
ModeBits(sr) == Lo(sr) % 64

UpperBits(sr) == <<Hi(sr), Lo(sr) \div 64>>

\* C25: on exception entry the low 6 bits of SR become
\* ((old & 0x3F) << 2) & 0x3F and bits 31..6 are unchanged; on RFE the low 6
\* bits become (old & 0x3F) >> 2 and bits 31..6 are unchanged; no other
\* instruction except MTC0 to SR changes SR.
C25_ModeStack ==
    \A k \in 1..Len(hist) :
        LET seen == hist[k].sr_seen
            after == hist[k].sr_after
        IN  /\ hist[k].kind = "exception" =>
                   /\ ModeBits(after) = (ModeBits(seen) * 4) % 64
                   /\ UpperBits(after) = UpperBits(seen)
            /\ hist[k].kind = "instruction" /\ hist[k].word = RfeWord =>
                   /\ ModeBits(after) = ModeBits(seen) \div 4
                   /\ UpperBits(after) = UpperBits(seen)
            /\ hist[k].kind = "instruction" /\ hist[k].word \notin {RfeWord, MtcSrWord} =>
                   after = seen

\* an exception has pushed the stack 010101 to 010100 under BEV, and RFE has
\* popped it to 000101
C25_Witness ==
    /\ Len(hist) = 2
    /\ hist[1].kind = "exception"
    /\ hist[1].sr_seen = U32(\h0040, \h0015) /\ hist[1].sr_after = U32(\h0040, \h0014)
    /\ hist[2].kind = "instruction" /\ hist[2].word = RfeWord
    /\ hist[2].sr_after = U32(\h0040, \h0005)

\* ------------------------------------------- branches and register jumps

\* branch immediates: small, the largest with bits 15..13 clear, each of the
\* bits 13, 14 and 15 alone, and the ends of the 16-bit range
BranchImms == {\h0001, \h0004, \h1FFF, \h2000, \h3FFF, \h4000, \h7FFF, \h8000, \hFFFF}

\* the address of the branch or jump: RAM, 128 KiB above its start
TransferAt == U32(\h0002, \h0000)

\* the branches on r1 (against r2 where there is an rt) with every immediate,
\* the linking branches on r31, and JALR and JR through r4 and through r31
TransferWords ==
    {IType(OP[o], 1, 2, imm) : o \in {"BEQ", "BNE"}, imm \in BranchImms}
        \cup {IType(OP[o], 1, 0, imm) : o \in {"BGTZ", "BLEZ"}, imm \in BranchImms}
        \cup {IType(OP.REGIMM, 1, RZ[z], imm) : z \in DOMAIN RZ, imm \in BranchImms}
        \cup {IType(OP.REGIMM, 31, RZ[z], 4) : z \in {"BGEZAL", "BLTZAL"}}
        \cup {RType(4, 0, 31, 0, FUNCT.JALR), RType(31, 0, 31, 0, FUNCT.JALR),
              RType(4, 0, 5, 0, FUNCT.JALR), RType(4, 0, 0, 0, FUNCT.JR),
              RType(31, 0, 0, 0, FUNCT.JR)}

\* a CPU about to execute a branch or jump at TransferAt, its delay slot and
\* every target being zero words of the RAM; r1 is zero, positive or
\* negative, r2 zero, r4 and r31 hold addresses in RAM and r31 is negative or
\* not as a signed value
InitTransfer ==
    /\ bios = [o \in {} |-> 0]
    /\ ram = [o \in {} |-> 0]
    /\ \E w \in TransferWords, a \in {Zero32, U32(0, 1), U32(\hFFFF, \hFFFF)},
          ra \in {U32(\h0003, \h0000), U32(\h8003, \h0000)} :
           cpu = [CpuR3000_new EXCEPT
                      !.state.next_instruction = <<w, TransferAt>>,
                      !.state.pc = wrapping_add(TransferAt, FOUR),
                      !.state.registers = [i \in 0..31 |->
                          CASE i = 1 -> a [] i = 4 -> U32(\h0001, \h0040)
                            [] i = 31 -> ra [] OTHER -> Zero32]]
    /\ overflow_checks \in BOOLEAN
    /\ fatal = "none"
    /\ hist = <<>>

NextTransfer == Motherboard_tick

SpecTransfer == InitTransfer /\ [][NextTransfer]_vars

\* the condition of the branch of step h holds for the registers it found
ConditionHolds(h) ==
    LET s == h.seen[rs(h.instr)]
        t == h.seen[rt(h.instr)]
        negative == Hi(s) >= 2^15
    IN  CASE h.mnemonic = "BEQ" -> s = t
          [] h.mnemonic = "BNE" -> s # t
          [] h.mnemonic \in {"BGEZ", "BGEZAL"} -> ~negative
          [] h.mnemonic = "BGTZ" -> ~negative /\ s # Zero32
          [] h.mnemonic = "BLEZ" -> negative \/ s = Zero32
          [] h.mnemonic \in {"BLTZ", "BLTZAL"} -> negative

\* the branch target of step h: A + 4 + (sign_extend_32(imm) << 2)
BranchTarget(h) ==
    wrapping_add(wrapping_add(h.pc, FOUR), shl(SignExt16(Lo(h.instr)), 2))

\* C26: for every taken conditional branch at address A and every 16-bit
\* immediate imm, the instruction executed after the delay slot is at
\* (A + 4 + (sign_extend_32(imm) << 2)) mod 2^32; a branch that is not taken
\* continues at A+8.
C26_BranchOffset ==
    \A n \in 1..(Len(hist) - 2) :
        (/\ hist[n].mnemonic \in Branches
         /\ rs(hist[n].instr) # 31
         /\ Succeeded(hist[n]) /\ Succeeded(hist[n + 1])) =>
            hist[n + 2].pc = IF ConditionHolds(hist[n])
                             THEN BranchTarget(hist[n])
                             ELSE wrapping_add(hist[n].pc, U32(0, 8))

\* C27: JALR at address A writes A+8 to r31 and, after the delay slot,
\* transfers control to the value register rs held before the JALR executed,
\* for every rs including rs = 31; JR transfers to the value of rs and writes
\* no register.
C27_RegisterJumps ==
    \A n \in 1..(Len(hist) - 2) :
        /\ (hist[n].mnemonic = "JALR" /\ Succeeded(hist[n]) /\ Succeeded(hist[n + 1])) =>
               /\ hist[n].after[31] = wrapping_add(hist[n].pc, U32(0, 8))
               /\ hist[n + 2].pc = hist[n].seen[rs(hist[n].instr)]
        /\ (hist[n].mnemonic = "JR" /\ Succeeded(hist[n]) /\ Succeeded(hist[n + 1])) =>
               /\ hist[n].after = hist[n].seen
               /\ hist[n + 2].pc = hist[n].seen[rs(hist[n].instr)]

\* the registers a linking branch leaves: those it found, with the address
\* of its delay slot in r31
Linked(h) == [h.seen EXCEPT ![31] = wrapping_add(h.pc, FOUR)]

\* C28: BGEZAL and BLTZAL write the handler-time PC value (the address of the
\* delay slot) into r31 on every execution, whether or not the branch is
\* taken, and perform that write before the condition on rs is evaluated (a
\* branch on r31 tests the link value); no other register is written.
C28_LinkBeforeCompare ==
    \A n \in 1..(Len(hist) - 2) :
        (hist[n].mnemonic \in {"BGEZAL", "BLTZAL"} /\ Succeeded(hist[n])
            /\ Succeeded(hist[n + 1])) =>
            /\ hist[n].fetch_pc = wrapping_add(hist[n].pc, FOUR)
            /\ hist[n].after = Linked(hist[n])
            /\ rs(hist[n].instr) = 31 =>
                   hist[n + 2].pc =
                       IF (hist[n].mnemonic = "BGEZAL") = (Hi(Linked(hist[n])[31]) < 2^15)
                       THEN BranchTarget(hist[n])
                       ELSE wrapping_add(hist[n].pc, U32(0, 8))

\* BGEZAL on r31, which held a negative value, has linked and then taken the
\* branch, and a BLTZAL on a register that is not negative has linked
\* without branching
C28_Witness ==
    \E n \in 1..(Len(hist) - 2) :
        /\ hist[n].mnemonic = "BGEZAL" /\ rs(hist[n].instr) = 31
        /\ hist[n].seen[31] = U32(\h8003, \h0000)
        /\ hist[n].after[31] = wrapping_add(TransferAt, FOUR)
        /\ hist[n + 2].pc = U32(\h0002, \h0014)

\* ------------------------------------- the multiply handlers on their own

Apply_op_mult == Apply("MULT", 1, 2, 0, 0, op_mult(Motherboard, RType(1, 2, 0, 0, FUNCT.MULT)))

Apply_op_multu == Apply("MULTU", 1, 2, 0, 0, op_multu(Motherboard, RType(1, 2, 0, 0, FUNCT.MULTU)))

NextMul ==
    \/ Apply_op_mult
    \/ Apply_op_multu

SpecMul == InitDiv /\ [][NextMul]_vars

\* the two's complement of a little-endian byte sequence, from byte i on with
\* the carry of the increment
RECURSIVE Negated(_, _, _)
Negated(bytes, i, carry) ==
    IF i > Len(bytes) THEN <<>>
    ELSE LET t == (255 - bytes[i]) + carry IN
         <<t % 256>> \o Negated(bytes, i + 1, t \div 256)

\* HI and LO of a 64-bit value given as eight little-endian bytes
HiLo(bytes) ==
    <<from_le_byteslice(4, SubSeq(bytes, 5, 8)), from_le_byteslice(4, SubSeq(bytes, 1, 4))>>

\* the eight bytes of the product of two 32-bit magnitudes
MagnitudeProduct(a, b) == MulCols(to_le_byteslice(4, a), to_le_byteslice(4, b), 0, 0)

\* HI and LO of the 64-bit product of a and b as unsigned values
UnsignedProduct(a, b) == HiLo(MagnitudeProduct(a, b))

\* HI and LO of the 64-bit two's-complement product of a and b as signed
\* values: the product of the magnitudes, negated when the signs differ
SignedProduct(a, b) ==
    IF Negative(a) # Negative(b)
    THEN HiLo(Negated(MagnitudeProduct(Magnitude(a), Magnitude(b)), 1, 1))
    ELSE HiLo(MagnitudeProduct(Magnitude(a), Magnitude(b)))

\* C29: MULT sets HI:LO to the full 64-bit two's-complement product of rs and
\* rt taken as signed 32-bit values, and MULTU to the full 64-bit product
\* taken as unsigned values, for all operand pairs including negative times
\* negative; neither raises an exception nor aborts.
C29_Multiply ==
    \A k \in 1..Len(hist) :
        /\ hist[k].mnemonic = "MULT" =>
               /\ hist[k].res = "None"
               /\ hist[k].hilo_after = SignedProduct(hist[k].seen[1], hist[k].seen[2])
        /\ hist[k].mnemonic = "MULTU" =>
               /\ hist[k].res = "None"
               /\ hist[k].hilo_after = UnsignedProduct(hist[k].seen[1], hist[k].seen[2])

\* ----------------------------------------- the narrow loads on their own

LoadOffsets == {0, 1, 2, 3}

\* a CPU with the base address of a RAM word in r1, through KUSEG or KSEG0,
\* over a RAM that holds 0x8403_8281 or 0x7F80_01FF at 0x40
InitLoad ==
    /\ bios = [o \in {} |-> 0]
    /\ ram \in {(64 :> \h81) @@ (65 :> \h82) @@ (66 :> \h03) @@ (67 :> \h84),
                (64 :> \hFF) @@ (65 :> \h01) @@ (66 :> \h80) @@ (67 :> \h7F)}
    /\ \E base \in {U32(\h0000, \h0040), U32(\h8000, \h0040)} :
           cpu = [CpuR3000_new EXCEPT
                      !.state.registers = [i \in 0..31 |->
                          CASE i = 1 -> base [] OTHER -> Zero32]]
    /\ overflow_checks \in BOOLEAN
    /\ fatal = "none"
    /\ hist = <<>>

\* what one load handler application observed
LoadInfo(mnemonic, imm, h) ==
    [mnemonic |-> mnemonic, imm |-> imm,
     offset |-> 64 + imm,
     ram_seen |-> ram,
     next_load |-> h.mb.cpu.state.next_load,
     res |-> h.res]

\* a load handler applied to the machine as it stands; an abort ends the run
ApplyLoad(mnemonic, imm, h) ==
    /\ fatal = "none"
    /\ Len(hist) < MaxApplies
    /\ cpu' = h.mb.cpu
    /\ ram' = h.mb.ram
    /\ hist' = Append(hist, LoadInfo(mnemonic, imm, h))
    /\ fatal' = IF h.res = PANIC THEN "handler" ELSE "none"
    /\ UNCHANGED <<bios, overflow_checks>>

Apply_op_lb ==
    \E imm \in LoadOffsets :
        ApplyLoad("LB", imm, op_lb(Motherboard, IType(OP.LB, 1, 2, imm)))

Apply_op_lbu ==
    \E imm \in LoadOffsets :
        ApplyLoad("LBU", imm, op_lbu(Motherboard, IType(OP.LBU, 1, 2, imm)))

Apply_op_lh ==
    \E imm \in LoadOffsets :
        ApplyLoad("LH", imm, op_lh(Motherboard, IType(OP.LH, 1, 2, imm)))

Apply_op_lhu ==
    \E imm \in LoadOffsets :
        ApplyLoad("LHU", imm, op_lhu(Motherboard, IType(OP.LHU, 1, 2, imm)))

NextLoad ==
    \/ Apply_op_lb
    \/ Apply_op_lbu
    \/ Apply_op_lh
    \/ Apply_op_lhu

SpecLoad == InitLoad /\ [][NextLoad]_vars

\* the byte and the little-endian half-word of the RAM at the address of
\* entry e
ByteOf(e) == e.ram_seen[e.offset]

HalfOf(e) == e.ram_seen[e.offset] + 256 * e.ram_seen[e.offset + 1]

\* C30: LH deposits as pending load the 16-bit little-endian half-word at the
\* effective address sign-extended to 32 bits, and LHU the same half-word
\* zero-extended; LB and LBU do the same for the addressed byte (sign- and
\* zero-extended from 8 bits).
C30_NarrowLoads ==
    \A k \in 1..Len(hist) :
        LET e == hist[k] IN
        /\ e.mnemonic = "LB" =>
               e.res = "None" /\ e.next_load =
                   <<2, U32(IF ByteOf(e) >= 128 THEN \hFFFF ELSE 0,
                            IF ByteOf(e) >= 128 THEN \hFF00 + ByteOf(e) ELSE ByteOf(e))>>
        /\ e.mnemonic = "LBU" =>
               e.res = "None" /\ e.next_load = <<2, U32(0, ByteOf(e))>>
        /\ e.mnemonic = "LH" /\ e.imm % 2 = 0 =>
               e.res = "None" /\ e.next_load =
                   <<2, U32(IF HalfOf(e) >= 2^15 THEN \hFFFF ELSE 0, HalfOf(e))>>
        /\ e.mnemonic = "LHU" /\ e.imm % 2 = 0 =>
               e.res = "None" /\ e.next_load = <<2, U32(0, HalfOf(e))>>

-----------------------------------------------------------------------------
\* the unaligned loads and stores, run from RAM: a pair of LWR/LWL or of
\* SWR/SWL at an address of every byte lane, in both orders, the stores
\* followed by a pair of loads at the same address into another register

\* where the program is placed (KUSEG RAM)
UnalignedAt == U32(0, \h0100)

\* sixteen bytes of data, all different, around the words at 0x40 and 0x44
UnalignedData == [o \in 60..75 |-> 3 * o + 1]

UnalignedBases == {U32(0, \h0040), U32(\h8000, \h0040)}

\* LWR t, n(r1) and LWL t, n+3(r1), in the order told
LoadPair(t, n, right_first) ==
    IF right_first
    THEN <<IType(OP.LWR, 1, t, n), IType(OP.LWL, 1, t, n + 3)>>
    ELSE <<IType(OP.LWL, 1, t, n + 3), IType(OP.LWR, 1, t, n)>>

\* SWR r2, n(r1) and SWL r2, n+3(r1), in the order told
StorePair(n, right_first) ==
    IF right_first
    THEN <<IType(OP.SWR, 1, 2, n), IType(OP.SWL, 1, 2, n + 3)>>
    ELSE <<IType(OP.SWL, 1, 2, n + 3), IType(OP.SWR, 1, 2, n)>>

UnalignedPrograms ==
    {LoadPair(2, n, f) : n \in 0..3, f \in BOOLEAN}
      \cup {StorePair(n, f) \o LoadPair(3, n, g) : n \in 0..3, f \in BOOLEAN, g \in BOOLEAN}

\* the RAM holding the data and, from UnalignedAt on, the program
UnalignedImage(prog) ==
    LET image == ImageOf(prog) IN
    [o \in DOMAIN UnalignedData \cup {Lo(UnalignedAt) + x : x \in DOMAIN image} |->
        IF o < Lo(UnalignedAt) THEN UnalignedData[o] ELSE image[o - Lo(UnalignedAt)]]

InitUnaligned ==
    /\ bios = [o \in {} |-> 0]
    /\ \E prog \in UnalignedPrograms, base \in UnalignedBases,
          v \in {U32(\hA1B2, \hC3D4), U32(\h0102, \h8304)} :
          /\ ram = UnalignedImage(prog)
          /\ cpu = [CpuR3000_new EXCEPT
                      !.state.next_instruction = <<prog[1], UnalignedAt>>,
                      !.state.pc = wrapping_add(UnalignedAt, FOUR),
                      !.state.registers = [i \in 0..31 |->
                          CASE i = 1 -> base [] i = 2 -> v
                            [] i = 3 -> U32(\h0F0F, \h0F0F) [] OTHER -> Zero32]]
    /\ overflow_checks \in BOOLEAN
    /\ fatal = "none"
    /\ hist = <<>>

NextUnaligned == Motherboard_tick

SpecUnaligned == InitUnaligned /\ [][NextUnaligned]_vars

\* the effective address of a recorded load or store: rs + sign-extended imm
AddrOf(h) == wrapping_add(h.seen[rs(h.instr)], SignExt16(immediate(h.instr)))

\* byte i (0 the lowest) of a 32-bit value
ByteOfWord(v, i) ==
    CASE i = 0 -> Lo(v) % 256 [] i = 1 -> Lo(v) \div 256
      [] i = 2 -> Hi(v) % 256 [] i = 3 -> Hi(v) \div 256

\* the byte of a RAM r at the KUSEG or KSEG0 address a + i
MemByte(r, a, i) == ByteAt(r, Lo(a) + i)

\* the little-endian word formed by the bytes of r at a .. a+3
WordAt(r, a) ==
    U32(MemByte(r, a, 2) + 256 * MemByte(r, a, 3), MemByte(r, a, 0) + 256 * MemByte(r, a, 1))

\* f and s are LWR t, a and LWL t, a+3 (or SWR and SWL), in either order
IsPair(f, s, right, left) ==
    /\ Succeeded(f) /\ Succeeded(s)
    /\ {f.mnemonic, s.mnemonic} = {right, left}
    /\ rt(f.instr) = rt(s.instr)
    /\ LET r == IF f.mnemonic = right THEN f ELSE s
           l == IF f.mnemonic = right THEN s ELSE f
       IN  AddrOf(l) = wrapping_add(AddrOf(r), U32(0, 3))

\* the address a of a pair: that of its LWR or SWR
PairAddr(f, s, right) == IF f.mnemonic = right THEN AddrOf(f) ELSE AddrOf(s)

\* one LWL or LWR on its own: the bytes it is responsible for are in rt when
\* its step ends, the other bytes of rt are as it found them
MergedInStep(h, r) ==
    LET t == rt(h.instr)
        n == Lo(AddrOf(h)) % 4
    IN  \A i \in 0..3 :
            ByteOfWord(h.after[t], i) =
                IF h.mnemonic = "LWR"
                THEN IF i <= 3 - n THEN MemByte(r, AddrOf(h), i)
                     ELSE ByteOfWord(h.seen[t], i)
                ELSE IF i >= 3 - n THEN MemByte(r, AddrOf(h), i - 3)
                     ELSE ByteOfWord(h.seen[t], i)

\* C31: LWR rt, a and LWL rt, a+3, in either order and for every byte lane of
\* a, leave rt equal to the little-endian word of the memory bytes a .. a+3;
\* each of the two writes rt in its own step, so that the second already
\* merges into what the first wrote and the instruction after the pair reads
\* the whole word.
C31_UnalignedLoad ==
    \A n \in 1..(Len(hist) - 2) :
        IsPair(hist[n], hist[n + 1], "LWR", "LWL") =>
            LET t == rt(hist[n].instr)
                a == PairAddr(hist[n], hist[n + 1], "LWR")
            IN  /\ MergedInStep(hist[n], ram)
                /\ MergedInStep(hist[n + 1], ram)
                /\ hist[n + 1].seen[t] = hist[n].after[t]
                /\ hist[n + 1].after[t] = WordAt(ram, a)
                /\ hist[n + 2].seen[t] = WordAt(ram, a)
                /\ hist[n + 2].load[1] # t

\* a pair at an address that is not word-aligned, so that the word comes from
\* two aligned words, has run and the next instruction has been executed
C31_Witness ==
    \E n \in 1..(Len(hist) - 2) :
        /\ IsPair(hist[n], hist[n + 1], "LWR", "LWL")
        /\ hist[n].mnemonic = "LWL"
        /\ Lo(PairAddr(hist[n], hist[n + 1], "LWR")) % 4 = 3
        /\ hist[n + 2].seen[rt(hist[n].instr)] # hist[n].seen[rt(hist[n].instr)]

\* SWR and SWL at a and a+3 have just run, in either order
StoredPair ==
    /\ Len(hist) >= 2
    /\ IsPair(hist[Len(hist) - 1], hist[Len(hist)], "SWR", "SWL")

\* C32: SWR rt, a and SWL rt, a+3 (cache not isolated) make the memory bytes
\* a .. a+3 hold the register in little-endian order and change no other
\* byte, and a following LWR a / LWL a+3 reads the register value back.
C32_UnalignedStore ==
    /\ StoredPair =>
          LET f == hist[Len(hist) - 1]
              a == PairAddr(f, hist[Len(hist)], "SWR")
              v == f.seen[rt(f.instr)]
          IN  /\ \A i \in 0..3 : MemByte(ram, a, i) = ByteOfWord(v, i)
              /\ \A o \in DOMAIN UnalignedData :
                    o \notin {Lo(a) + i : i \in 0..3} => ByteAt(ram, o) = UnalignedData[o]
    /\ \A n \in 1..(Len(hist) - 3) :
          /\ IsPair(hist[n], hist[n + 1], "SWR", "SWL")
          /\ IsPair(hist[n + 2], hist[n + 3], "LWR", "LWL")
          /\ PairAddr(hist[n], hist[n + 1], "SWR") = PairAddr(hist[n + 2], hist[n + 3], "LWR")
          => hist[n + 3].after[rt(hist[n + 3].instr)] = hist[n].seen[rt(hist[n].instr)]

-----------------------------------------------------------------------------
\* moves to and from Cop0, run from RAM: MTC0 r2, rd and then MFC0 r3, rd

\* a RAM holding only the program, from UnalignedAt on
RamProgram(prog) ==
    LET image == ImageOf(prog) IN
    [o \in {Lo(UnalignedAt) + x : x \in DOMAIN image} |-> image[o - Lo(UnalignedAt)]]

Mtc0(t, d) == CopType(\b00100, t, d)

Mfc0(t, d) == CopType(\b00000, t, d)

MoveValues == {Zero32, U32(0, 1), U32(\h0040, \h0000), U32(\hFFFF, \hFFFF)}

\* Cop0 after reset and Cop0 after a SYSCALL was taken at 0x0000_1000
MoveCop0 ==
    {Cop0_new, handle_exception(CpuR3000_new, "Syscall", U32(0, \h1000), FALSE).cpu.cop0}

InitMove ==
    /\ bios = [o \in {} |-> 0]
    /\ \E d \in 0..15, v \in MoveValues, c \in MoveCop0 :
          /\ ram = RamProgram(<<Mtc0(2, d), Mfc0(3, d)>>)
          /\ cpu = [CpuR3000_new EXCEPT
                      !.state.next_instruction = <<Mtc0(2, d), UnalignedAt>>,
                      !.state.pc = wrapping_add(UnalignedAt, FOUR),
                      !.state.registers = [i \in 0..31 |->
                          CASE i = 2 -> v [] i = 3 -> U32(\h0F0F, \h0F0F) [] OTHER -> Zero32],
                      !.cop0 = c]
    /\ overflow_checks \in BOOLEAN
    /\ fatal = "none"
    /\ hist = <<>>

NextMove == Motherboard_tick

SpecMove == InitMove /\ [][NextMove]_vars

\* the word is MTC0 rt, rd with rd one of the registers ds
IsMtc0(word, ds) ==
    /\ decode_instruction(word) = "MTCz"
    /\ coproc(word) = 0
    /\ rd(word) \in ds

\* the next instruction to execute is MTC0 to one of ds, with a register
\* value other than 0
PendingNonzeroMtc0(ds) ==
    /\ fatal = "none"
    /\ cpu.cycles < MaxSteps
    /\ IsMtc0(cpu.state.next_instruction[1], ds)
    /\ cpu.state.registers[rt(cpu.state.next_instruction[1])] # Zero32
    /\ cpu.state.next_load[1] # rt(cpu.state.next_instruction[1])

\* C33: MTC0 of 0 to a hardware-breakpoint register (3, 5, 6, 7, 9, 11) is
\* accepted and changes nothing in Cop0; MTC0 of a value other than 0 to one
\* of them, or to Cause (13), is fatal; after MTC0 to SR (12) or EPC (14),
\* MFC0 of the same register loads the value written.
C33_Mtc0 ==
    /\ [](\A n \in 1..Len(hist) :
            /\ IsMtc0(hist[n].instr, {3, 5, 6, 7, 9, 11}) =>
                  /\ hist[n].seen[rt(hist[n].instr)] = Zero32
                  /\ hist[n].res = "None"
                  /\ IF n < Len(hist) THEN hist[n + 1].cop0_seen = hist[n].cop0_seen
                     ELSE cpu.cop0 = hist[n].cop0_seen
            /\ IsMtc0(hist[n].instr, {13}) => hist[n].seen[rt(hist[n].instr)] = Zero32
            /\ (/\ IsMtc0(hist[n].instr, {12, 14})
                /\ n + 2 <= Len(hist)
                /\ decode_instruction(hist[n + 1].instr) = "MFCz"
                /\ coproc(hist[n + 1].instr) = 0
                /\ rd(hist[n + 1].instr) = rd(hist[n].instr)) =>
                  /\ hist[n].res = "None" /\ hist[n + 1].res = "None"
                  /\ hist[n + 2].load = <<rt(hist[n + 1].instr), hist[n].seen[rt(hist[n].instr)]>>
                  /\ hist[n + 2].seen[rt(hist[n + 1].instr)] = hist[n].seen[rt(hist[n].instr)])
    /\ [][PendingNonzeroMtc0({3, 5, 6, 7, 9, 11, 13}) =>
              fatal' = "handler" /\ cpu' = cpu /\ hist' = hist]_vars

\* SR was written with a value other than the one it had and read back
C33_Witness ==
    \E n \in 1..(Len(hist) - 2) :
        /\ IsMtc0(hist[n].instr, {12})
        /\ decode_instruction(hist[n + 1].instr) = "MFCz"
        /\ hist[n].seen[2] # hist[n].cop0_seen.sr
        /\ hist[n].seen[2] # Zero32
        /\ hist[n + 2].seen[3] = hist[n].seen[2]

\* a write of 0 to a breakpoint register was accepted with Cop0 not at its
\* reset values
C33_WitnessAccepted ==
    /\ Len(hist) = 1
    /\ IsMtc0(hist[1].instr, {7})
    /\ cpu.cop0 # Cop0_new

\* a write of a value other than 0 to a breakpoint register was fatal
C33_WitnessFatal ==
    /\ fatal = "handler"
    /\ IsMtc0(cpu.state.next_instruction[1], {3})
    /\ cpu.state.registers[2] # Zero32

-----------------------------------------------------------------------------
\* the coprocessor instructions of the four coprocessors, run through exec

\* the word of opcode group g (COPz, LWCz or SWCz) for coprocessor z
CoprocWord(g, z, s, t, d) == U32((g * 4 + z) * 2^10 + s * 2^5 + t, d * 2^11)

\* the rs field of the COPz group: MFCz, CFCz, MTCz, CTCz and a coprocessor
\* operation
CoprocSubs == {\b00000, \b00010, \b00100, \b00110, \b10000}

CoprocWords ==
    {CoprocWord(OP.COPz, z, s, 2, 12) : z \in 0..3, s \in CoprocSubs}
      \cup {CoprocWord(g, z, 1, 2, 0) : g \in {OP.LWCz, OP.SWCz}, z \in 0..3}

InitCoproc ==
    /\ bios = [o \in {} |-> 0]
    /\ ram = [o \in {} |-> 0]
    /\ \E w \in CoprocWords, l \in {<<0, Zero32>>, <<5, U32(0, \h1234)>>},
          sr \in {Zero32, U32(\h0040, \h0000)} :
           cpu = [CpuR3000_new EXCEPT
                      !.state.next_instruction = <<w, UnalignedAt>>,
                      !.state.pc = wrapping_add(UnalignedAt, FOUR),
                      !.state.next_load = l,
                      !.state.registers = [i \in 0..31 |->
                          CASE i = 1 -> U32(0, \h0040) [] i = 2 -> U32(\h0040, \h0003)
                            [] OTHER -> Zero32],
                      !.cop0.sr = sr]
    /\ overflow_checks \in BOOLEAN
    /\ fatal = "none"
    /\ hist = <<>>

NextCoproc == Motherboard_tick

SpecCoproc == InitCoproc /\ [][NextCoproc]_vars

\* the coprocessor a word addresses: the low two bits of its opcode
CoprocOf(word) == (Hi(word) \div 2^10) % 4

\* the word belongs to the COPz, LWCz or SWCz group
InGroup(word, g) == Hi(word) \div 2^12 = g

\* the word is one of COPz, MFCz, MTCz, CFCz, CTCz, LWCz, SWCz
IsCoprocInstr(word) ==
    \/ InGroup(word, OP.LWCz) \/ InGroup(word, OP.SWCz)
    \/ InGroup(word, OP.COPz) /\ (Hi(word) \div 2^5) % 32 \in CoprocSubs

\* the word is CFCz or CTCz
IsControlMove(word) ==
    InGroup(word, OP.COPz) /\ (Hi(word) \div 2^5) % 32 \in {\b00010, \b00110}

\* the words the claim speaks of
MustBeUnusable(word) ==
    \/ IsCoprocInstr(word) /\ CoprocOf(word) \in {1, 3}
    \/ IsControlMove(word) /\ CoprocOf(word) = 0

\* the step n raised CoprocessorUnusable: nothing but the exception entry
\* happened
RaisedUnusable(n) ==
    LET h == hist[n]
        c == IF n < Len(hist) THEN hist[n + 1].cop0_seen ELSE cpu.cop0
        l == IF n < Len(hist) THEN hist[n + 1].load ELSE cpu.state.next_load
    IN  /\ h.res = "CoprocessorUnusable"
        /\ Exception[h.res] = 11
        /\ Lo(c.cause) % 128 = 11 * 4
        /\ c.epc = h.pc
        /\ h.after = h.seen
        /\ l = <<0, Zero32>>

\* C34: COPz, MFCz, MTCz, CFCz, CTCz, LWCz and SWCz addressed to coprocessor
\* 1 or 3, and CFCz and CTCz addressed to Cop0, raise CoprocessorUnusable
\* (code 11) and change no general register and no pending load; none of
\* them ends the run.
C34_CoprocessorUnusable ==
    /\ \A n \in 1..Len(hist) : MustBeUnusable(hist[n].instr) => RaisedUnusable(n)
    /\ fatal # "none" => ~MustBeUnusable(cpu.state.next_instruction[1])

-----------------------------------------------------------------------------
\* the RAM device on its own: Ram::read, Ram::peek and Ram::write at the
\* offset in r1, the writes with the data in r2

\* Ram::with_size(2 * 1024 * 1024) of Motherboard::new
RamSize == 2097152

RamOffsets == {0, 1, 2, 3, 5, RamSize - 4, RamSize - 2}

RamData == {U32(\hA1B2, \hC3D4), U32(\h0100, \h00FF), U32(\h8000, \h0000)}

InitRam ==
    /\ bios = [o \in {} |-> 0]
    /\ ram \in {[o \in {} |-> 0], [o \in 0..7 |-> 16 + o]}
    /\ \E o \in RamOffsets, data \in RamData :
           cpu = [CpuR3000_new EXCEPT
                      !.state.registers = [i \in 0..31 |->
                          CASE i = 1 -> U32(o \div Half, o % Half) [] i = 2 -> data
                            [] OTHER -> Zero32]]
    /\ overflow_checks \in BOOLEAN
    /\ fatal = "none"
    /\ hist = <<>>

\* what one access to the device observed
RamInfo(access, w, some, value, after) ==
    [op |-> access, w |-> w,
     addr |-> as_usize(cpu.state.registers[1]),
     data |-> from_u32(w, cpu.state.registers[2]),
     some |-> some, value |-> value,
     ram_seen |-> ram, ram_after |-> after]

\* an access of width w at the offset in r1; the slice data[addr..addr + w]
\* of read_buf and write_buf aborts past the end of the buffer
ApplyRam(access, w, some, value, after) ==
    /\ fatal = "none"
    /\ Len(hist) < MaxApplies
    /\ IF as_usize(cpu.state.registers[1]) + w > RamSize
       THEN /\ fatal' = "ram"
            /\ UNCHANGED <<ram, hist>>
       ELSE /\ ram' = after
            /\ hist' = Append(hist, RamInfo(access, w, some, value, after))
            /\ fatal' = "none"
    /\ UNCHANGED <<bios, cpu, overflow_checks>>

Ram_read ==
    \E w \in Widths :
        ApplyRam("read", w, TRUE, read_buf(ram, w, as_usize(cpu.state.registers[1])), ram)

RamPeeked(w, p) == ApplyRam("peek", w, p.some, p.data, ram)

Ram_peek ==
    \E w \in Widths :
        RamPeeked(w, PeekResult(TRUE, TRUE, read_buf(ram, w, as_usize(cpu.state.registers[1]))))

Ram_write ==
    \E w \in Widths :
        ApplyRam("write", w, FALSE, Zero32,
                 write_buf(ram, w, as_usize(cpu.state.registers[1]),
                           from_u32(w, cpu.state.registers[2])))

NextRam ==
    \/ Ram_read
    \/ Ram_peek
    \/ Ram_write

SpecRam == InitRam /\ [][NextRam]_vars

\* the value of width w whose byte i is the byte of r at o + i
LittleEndianAt(r, w, o) ==
    CASE w = 1 -> U32(0, ByteAt(r, o))
      [] w = 2 -> U32(0, ByteAt(r, o) + 256 * ByteAt(r, o + 1))
      [] w = 4 -> U32(ByteAt(r, o + 2) + 256 * ByteAt(r, o + 3),
                      ByteAt(r, o) + 256 * ByteAt(r, o + 1))

\* C35: RAM is little-endian and width-consistent. A write of width 1, 2 or 4
\* at offset o stores byte i of the value at o + i and changes no byte
\* outside [o, o + w); a read or peek of the same width at o right after it
\* returns the value written; read and peek return the same value, the one
\* formed from the bytes at o, and neither changes the RAM.
C35_Ram ==
    \A n \in 1..Len(hist) :
        LET e == hist[n] IN
        /\ e.op = "write" =>
              /\ \A i \in 0..(e.w - 1) : ByteAt(e.ram_after, e.addr + i) = ByteOfWord(e.data, i)
              /\ \A x \in (DOMAIN e.ram_seen \cup DOMAIN e.ram_after) :
                    (x < e.addr \/ x >= e.addr + e.w) =>
                        ByteAt(e.ram_after, x) = ByteAt(e.ram_seen, x)
        /\ e.op \in {"read", "peek"} =>
              /\ e.some
              /\ e.value = LittleEndianAt(e.ram_seen, e.w, e.addr)
              /\ e.ram_after = e.ram_seen
        /\ (n > 1 /\ e.op \in {"read", "peek"} /\ hist[n - 1].op = "write"
                /\ hist[n - 1].w = e.w) =>
              e.value = hist[n - 1].data

\* a word with four different bytes was written over other bytes at an
\* unaligned offset and peeked
C35_Witness ==
    /\ Len(hist) >= 2
    /\ hist[1].op = "write" /\ hist[1].w = 4 /\ hist[1].addr = 5
    /\ hist[1].data = U32(\hA1B2, \hC3D4)
    /\ hist[1].ram_seen # [o \in {} |-> 0]
    /\ hist[2].op = "peek" /\ hist[2].w = 4
    /\ hist[2].value = U32(\hA1B2, \hC3D4)

-----------------------------------------------------------------------------
\* exception entry and the return from it

\* C36: after handle_exception and then RFE, bits 3..0 of SR (the current and
\* the previous mode and interrupt-enable pair) and bits 31..6 are those SR
\* had before the exception, for every SR; only bits 5..4 may differ.
C36_EntryThenRfe ==
    \A n \in 1..(Len(hist) - 1) :
        (/\ hist[n].kind = "exception"
         /\ hist[n + 1].kind = "instruction"
         /\ hist[n + 1].word = RfeWord) =>
            /\ hist[n + 1].sr_seen = hist[n].sr_after
            /\ ModeBits(hist[n + 1].sr_after) % 16 = ModeBits(hist[n].sr_seen) % 16
            /\ UpperBits(hist[n + 1].sr_after) = UpperBits(hist[n].sr_seen)

\* an SR with the oldest pair set went through an exception and RFE and came
\* back with that pair cleared
C36_Witness ==
    /\ Len(hist) = 2
    /\ hist[1].kind = "exception"
    /\ hist[1].sr_seen = U32(\hFFFF, \hFFEA)
    /\ hist[2].kind = "instruction" /\ hist[2].word = RfeWord
    /\ hist[2].sr_after = U32(\hFFFF, \hFFCA)

-----------------------------------------------------------------------------
\* the device table seen from map_device

\* a < b as unsigned 32-bit numbers
Below(a, b) == Hi(a) < Hi(b) \/ (Hi(a) = Hi(b) /\ Lo(a) < Lo(b))

\* a + b without a carry out of 32 bits
Plus(a, b) ==
    U32((Hi(a) + Hi(b) + (Lo(a) + Lo(b)) \div Half) % Half, (Lo(a) + Lo(b)) % Half)

\* the low 28 bits of an address
Low28(addr) == U32(Hi(addr) % \h1000, Lo(addr))

\* the entries of the device table whose range holds the address
Holding(a) ==
    {i \in DOMAIN RANGES :
        /\ ~Below(a, RANGES[i][2].start)
        /\ Below(a, Plus(RANGES[i][2].start, RANGES[i][2].length))}

C37_WitnessFatal ==
    /\ HasMapped
    /\ hist[1].addr = U32(\h2020, \h0000)
    /\ ~Returns(hist[1].at)

\* the address the device table is searched with
Folded(addr) ==
    IF SegmentByRange(addr) = "KSEG2" THEN U32(Hi(addr) - \hC000, Lo(addr))
    ELSE Low28(addr)

\* C38: the device table is unambiguous. The ranges of the named devices are
\* pairwise disjoint, so at most one range holds an address and the first one
\* found is the only one; for every mapped address the local offset returned
\* is the folded address minus the start of the range of the device returned
\* and is less than the length of that range.
C38_DeviceTable ==
    /\ \A i, j \in DOMAIN RANGES :
          i # j =>
              \/ ~Below(RANGES[i][2].start, Plus(RANGES[j][2].start, RANGES[j][2].length))
              \/ ~Below(RANGES[j][2].start, Plus(RANGES[i][2].start, RANGES[i][2].length))
    /\ HasMapped =>
          \A m \in {<<hist[1].addr, hist[1].at>>,
                    <<xor32(hist[1].addr, KSEG0_BIT), hist[1].at_kseg0_bit>>,
                    <<xor32(hist[1].addr, KSEG1_BITS), hist[1].at_kseg1_bits>>} :
              /\ Cardinality(Holding(Folded(m[1]))) <= 1
              /\ Returns(m[2]) =>
                    \E i \in Holding(Folded(m[1])) :
                        /\ m[2].dev = RANGES[i][1]
                        /\ Plus(RANGES[i][2].start, m[2].local) = Folded(m[1])
                        /\ Below(m[2].local, RANGES[i][2].length)

\* the last address of Expansion1, one below the scratchpad, was mapped
C38_Witness ==
    /\ HasMapped
    /\ hist[1].addr = U32(\h8F7F, \hFFFF)
    /\ hist[1].at = Mapping("KSEG0", "Expansion1", U32(\h007F, \hFFFF))

=========================================================================
